---- MODULE Spec2Model ----
(***************************************************************************)
(* Model of the unigraph-routes request gate: configureCORS, the chat      *)
(* handler's method check, authenticateUser (development bypass,           *)
(* allow-list, bearer header, Supabase getUser) and the hand-over to the   *)
(* protected chat logic.                                                   *)
(*                                                                         *)
(* Strings are sequences of symbols, so that split, trim, startsWith and   *)
(* substring are computed and not assumed.  A symbol is one character or   *)
(* an atomic word that contains no comma, blank or dot.  An optional value *)
(* (undefined / null in the source) is a sequence of length 0 or 1.        *)
(***************************************************************************)
EXTENDS Integers, Sequences, FiniteSets, TLC

\* ------------------------------------------------------------------ bounds
MaxEnvLen == 2
MaxChunks == 2

\* ------------------------------------------------------------ optionals
None == <<>>
Some(x) == <<x>>

\* JavaScript truthiness of an optional string: defined and not "".
Truthy(o) == o # None /\ o[1] # <<>>

\* o || d  for an optional string o and a string d
OrElse(o, d) == IF Truthy(o) THEN o[1] ELSE d

\* ---------------------------------------------------------------- strings
BearerPrefix == <<"B", "e", "a", "r", "e", "r", " ">>

\* String.prototype.startsWith
StartsWith(s, p) == Len(s) >= Len(p) /\ SubSeq(s, 1, Len(p)) = p

\* String.prototype.substring(n): drop the first n symbols
Substring(s, n) == SubSeq(s, n + 1, Len(s))

IsSpace(c) == c = " "

RECURSIVE TrimStart(_)
TrimStart(s) ==
    IF s # <<>> /\ IsSpace(Head(s)) THEN TrimStart(Tail(s)) ELSE s

RECURSIVE TrimEnd(_)
TrimEnd(s) ==
    IF s # <<>> /\ IsSpace(s[Len(s)]) THEN TrimEnd(SubSeq(s, 1, Len(s) - 1)) ELSE s

\* String.prototype.trim
Trim(s) == TrimEnd(TrimStart(s))

\* String.prototype.split(","): the pieces between the commas, empty pieces
\* included; "" splits into [""].
RECURSIVE SplitAcc(_, _, _)
SplitAcc(s, cur, acc) ==
    IF s = <<>> THEN Append(acc, cur)
    ELSE IF Head(s) = "," THEN SplitAcc(Tail(s), <<>>, Append(acc, cur))
    ELSE SplitAcc(Tail(s), Append(cur, Head(s)), acc)

Split(s) == SplitAcc(s, <<>>, <<>>)

\* Array.prototype.map(x => x.trim())
MapTrim(list) == [i \in 1..Len(list) |-> Trim(list[i])]

\* Array.prototype.filter(Boolean) on strings: drop the empty ones
RECURSIVE FilterBoolean(_)
FilterBoolean(list) ==
    IF list = <<>> THEN <<>>
    ELSE IF Head(list) # <<>> THEN <<Head(list)>> \o FilterBoolean(Tail(list))
    ELSE FilterBoolean(Tail(list))

\* Array.prototype.includes
Includes(list, x) == \E i \in 1..Len(list) : list[i] = x

\* Array.prototype.push, guarded by includes (add once)
PushIfAbsent(list, x) == IF Includes(list, x) THEN list ELSE Append(list, x)

\* ------------------------------------------------------------ environment
EnvKeys == {"NODE_ENV", "APPROVED_USERS", "SUPABASE_URL", "SUPABASE_ANON_KEY",
            "ALLOWED_ORIGINS", "CORS_ALLOW_ALL", "VERCEL_URL", "VERCEL_ENV",
            "OPENAI_API_KEY"}

VARIABLES
    env,    \* process.env: key -> optional string
    pc,     \* per request slot: "off", "idle", "getUser", "protected", "done"
    req,    \* per slot: the request object (method, headers, user)
    res,    \* per slot: the response object (status, body, headers, sent)
    loc,    \* per slot: locals of authenticateUser that live across the await
    cnt,    \* per slot: how often each part ran for the current request
    dom     \* the sets the inputs are drawn from (fixed by Init)

vars == <<env, pc, req, res, loc, cnt, dom>>

ReqIds == {1, 2}

\* utils/envUtils getEnvVar: process.env[key]
getEnvVar(e, key) == e[key]

\* getEnvValue: process.env[key] when truthy, else the getEnvVar fallback
getEnvValue(e, key) == IF Truthy(e[key]) THEN e[key] ELSE getEnvVar(e, key)

getApprovedUsers_noTrim(e) ==
    FilterBoolean(Split(OrElse(getEnvValue(e, "APPROVED_USERS"), <<>>)))


\* a list fixed in the code, not read from the configuration at the call
getApprovedUsers_fixed(e) == << <<"a">> >>

\* getApprovedUsers: split on commas, trim every entry, drop the empty ones
getApprovedUsers(e) ==
    FilterBoolean(MapTrim(Split(OrElse(getEnvValue(e, "APPROVED_USERS"), <<>>))))

isWhitelistEmpty_noLengthCheck(e) ==
    LET approvedUsersEnv == getEnvValue(e, "APPROVED_USERS") IN
        \/ ~Truthy(approvedUsersEnv)
        \/ Trim(approvedUsersEnv[1]) = <<>>

\* isWhitelistEmpty of authenticateUser
isWhitelistEmpty(e) ==
    LET approvedUsersEnv == getEnvValue(e, "APPROVED_USERS") IN
        \/ ~Truthy(approvedUsersEnv)
        \/ Trim(approvedUsersEnv[1]) = <<>>
        \/ Len(getApprovedUsers(e)) = 0

\* --------------------------------------------------------------- response
HeaderNames == {"Access-Control-Allow-Origin", "Access-Control-Allow-Credentials",
                "Access-Control-Allow-Methods", "Access-Control-Allow-Headers",
                "Content-Type", "Cache-Control", "Connection"}

NoUser == None

FreshRes == [status |-> 0, body |-> None, sent |-> 0, events |-> <<>>,
             headers |-> [h \in HeaderNames |-> None]]

FreshLoc == [isDevelopment |-> FALSE, approvedUsersEnv |-> None, APPROVED_USERS |-> <<>>,
             listRead |-> FALSE, token |-> None, answer |-> None,
             completion |-> None, chunks |-> <<>>]

FreshCnt == [authRuns |-> 0, authorityCalls |-> 0, protectedRuns |-> 0, providerCalls |-> 0]

FreshReq == [method |-> "GET", authorization |-> None, origin |-> None, user |-> NoUser,
             body |-> None]

\* res.setHeader(name, value)
setHeader(rs, name, value) == [rs EXCEPT !.headers[name] = Some(value)]

\* res.status(code).json(body): one terminal write
Json(rs, code, body) ==
    [rs EXCEPT !.status = code, !.body = Some(body), !.sent = @ + 1]

\* res.status(code).end(): one terminal write without a body
End(rs, code) == [rs EXCEPT !.status = code, !.sent = @ + 1]


Failure_messageOnly(err) == [success |-> FALSE, message |-> err]

\* the failure body {success: false, error}; an error text is the sequence of
\* the segments it is concatenated from
Failure(err) == [success |-> FALSE, error |-> err]

\* ------------------------------------------------------------------- CORS
HttpsScheme == "https://"
AllowMethodsValue == <<"GET, POST, PUT, DELETE, OPTIONS">>
AllowHeadersValue == <<"Content-Type, Authorization, X-Requested-With">>
Wildcard == <<"*">>

\* /^https:\/\/unigraph-git-[^.]+\.vercel\.app.*$/ on a sequence of symbols:
\* the scheme, the word unigraph-git-, one or more symbols other than the
\* dot, then .vercel.app, then anything
unigraphGitPattern(o) ==
    /\ Len(o) >= 2
    /\ o[1] = HttpsScheme
    /\ o[2] = "unigraph-git-"
    /\ \E k \in 3..Len(o) :
          /\ \A i \in 3..k : o[i] # "."
          /\ Len(o) >= k + 4
          /\ SubSeq(o, k + 1, k + 4) = <<".", "vercel", ".", "app">>

\* the allowedOrigins array configureCORS builds before it looks at the origin
allowedOriginsOf(e) ==
    LET allowedOriginsEnv == getEnvVar(e, "ALLOWED_ORIGINS")
        corsAllowAll == getEnvVar(e, "CORS_ALLOW_ALL") = Some(<<"true">>)
        vercelUrl == getEnvVar(e, "VERCEL_URL")
        vercelEnv == getEnvVar(e, "VERCEL_ENV")
        base == IF corsAllowAll THEN <<>>
                ELSE IF Truthy(allowedOriginsEnv) THEN MapTrim(Split(allowedOriginsEnv[1]))
                ELSE << <<"http://localhost:3000">> >>
        withUrl == IF Truthy(vercelUrl)
                   THEN PushIfAbsent(base, <<HttpsScheme>> \o vercelUrl[1])
                   ELSE base
    IN  IF vercelEnv = Some(<<"preview">>) /\ Truthy(vercelUrl)
        THEN PushIfAbsent(withUrl, <<HttpsScheme>> \o vercelUrl[1])
        ELSE withUrl


commonCorsHeaders_noCredentials(rs) ==
    setHeader(setHeader(rs,
        "Access-Control-Allow-Methods", AllowMethodsValue),
        "Access-Control-Allow-Headers", AllowHeadersValue)

\* the three headers every path sets after the origin header
commonCorsHeaders(rs) ==
    setHeader(setHeader(setHeader(rs,
        "Access-Control-Allow-Credentials", <<"true">>),
        "Access-Control-Allow-Methods", AllowMethodsValue),
        "Access-Control-Allow-Headers", AllowHeadersValue)

\* the preflight block: an OPTIONS request is answered 200 and ended
handlePreflight_never(rq, rs) == [res |-> rs, preflight |-> FALSE]

handlePreflight(rq, rs) ==
    IF rq.method = "OPTIONS"
    THEN [res |-> End(rs, 200), preflight |-> TRUE]
    ELSE [res |-> rs, preflight |-> FALSE]


\* the origin rules without the block for preview deployments, as in
\* api/middleware/cors.ts
configureCORS_staticOnly(e, rq, rs) ==
    LET corsAllowAll == getEnvVar(e, "CORS_ALLOW_ALL") = Some(<<"true">>)
        allowedOrigins == allowedOriginsOf(e)
        origin == rq.origin
        rs1 == IF corsAllowAll
               THEN setHeader(rs, "Access-Control-Allow-Origin", Wildcard)
               ELSE rs
        rs2 == IF Truthy(origin) /\ Includes(allowedOrigins, origin[1])
               THEN setHeader(rs1, "Access-Control-Allow-Origin", origin[1])
               ELSE IF Len(allowedOrigins) > 0
               THEN setHeader(rs1, "Access-Control-Allow-Origin", allowedOrigins[1])
               ELSE setHeader(rs1, "Access-Control-Allow-Origin", Wildcard)
        rs3 == commonCorsHeaders(rs2)
    IN  handlePreflight(rq, rs3)

\* configureCORS(req, res): the response it leaves and whether the preflight
\* was handled
configureCORS(e, rq, rs) ==
    LET corsAllowAll == getEnvVar(e, "CORS_ALLOW_ALL") = Some(<<"true">>)
        allowedOrigins == allowedOriginsOf(e)
        origin == rq.origin
        rs1 == IF corsAllowAll
               THEN setHeader(rs, "Access-Control-Allow-Origin", Wildcard)
               ELSE rs
        rs2 == IF Truthy(origin) /\ unigraphGitPattern(origin[1])
               THEN setHeader(rs1, "Access-Control-Allow-Origin", origin[1])
               ELSE IF Truthy(origin) /\ Includes(allowedOrigins, origin[1])
               THEN setHeader(rs1, "Access-Control-Allow-Origin", origin[1])
               ELSE IF Len(allowedOrigins) > 0
               THEN setHeader(rs1, "Access-Control-Allow-Origin", allowedOrigins[1])
               ELSE setHeader(rs1, "Access-Control-Allow-Origin", Wildcard)
        rs3 == commonCorsHeaders(rs2)
    IN  handlePreflight(rq, rs3)

\* ------------------------------------------------------- authenticateUser
DevUser_plainRole == [id |-> "dev-user-id", email |-> <<"dev@localhost">>, role |-> <<"user">>]

\* the mock user of the development bypass
DevUser == [id |-> "dev-user-id", email |-> <<"dev@localhost">>, role |-> <<"admin">>]

ErrApprovedUsers ==
    <<"APPROVED_USERS", " environment variable is not set or is empty. Access denied.">>
ErrHeaderRequired == <<"Authorization header required", ". Format: Bearer <token>">>
ErrSupabaseConfig == <<"Missing Supabase configuration">>
ErrInvalidToken(message) == <<"Invalid or expired token", ": ">> \o message
ErrNotAuthorized == <<"User is not authorized">>
ErrAuthFailed == <<"Authentication failed">>
ErrMethod == <<"Method not allowed", ". Use POST to send chat messages.">>

\* the user object attached on success: role falls back to "user"
AttachedUser(user) ==
    [id |-> user.id, email |-> OrElse(user.email, <<>>), role |-> OrElse(user.role, <<"user">>)]

\* the header test: present and starting with "Bearer "
hasBearer_caseInsensitive(authHeader) ==
    /\ Truthy(authHeader)
    /\ \/ StartsWith(authHeader[1], BearerPrefix)
       \/ StartsWith(authHeader[1], <<"b", "e", "a", "r", "e", "r", " ">>)

hasBearer(authHeader) == Truthy(authHeader) /\ StartsWith(authHeader[1], BearerPrefix)


\* the gate without the check of the Supabase configuration: the client is
\* created and the authority called with whatever is configured
authenticateUserSync_noConfigCheck(e, rq, rs) ==
    LET isDevelopment == getEnvValue(e, "NODE_ENV") = Some(<<"development">>)
        APPROVED_USERS == getApprovedUsers(e)
        authHeader == rq.authorization
        lc0 == [FreshLoc EXCEPT !.isDevelopment = isDevelopment]
        lc1 == [lc0 EXCEPT !.APPROVED_USERS = APPROVED_USERS, !.listRead = TRUE,
                           !.approvedUsersEnv = getEnvValue(e, "APPROVED_USERS")]
    IN  IF isDevelopment
        THEN [ret |-> "true", req |-> [rq EXCEPT !.user = Some(DevUser)], res |-> rs,
              loc |-> lc0]
        ELSE IF isWhitelistEmpty(e)
        THEN [ret |-> "false", req |-> rq, loc |-> lc1,
              res |-> Json(rs, 500, Failure(ErrApprovedUsers))]
        ELSE IF ~hasBearer(authHeader)
        THEN [ret |-> "false", req |-> rq, loc |-> lc1,
              res |-> Json(rs, 401, Failure(ErrHeaderRequired))]
        ELSE [ret |-> "await", req |-> rq, res |-> rs,
              loc |-> [lc1 EXCEPT !.token = Some(Substring(authHeader[1], 7))]]


\* the gate with the Supabase configuration checked before the header
authenticateUserSync_configFirst(e, rq, rs) ==
    LET isDevelopment == getEnvValue(e, "NODE_ENV") = Some(<<"development">>)
        APPROVED_USERS == getApprovedUsers(e)
        authHeader == rq.authorization
        supabaseUrl == getEnvValue(e, "SUPABASE_URL")
        supabaseKey == getEnvValue(e, "SUPABASE_ANON_KEY")
        lc0 == [FreshLoc EXCEPT !.isDevelopment = isDevelopment]
        lc1 == [lc0 EXCEPT !.APPROVED_USERS = APPROVED_USERS, !.listRead = TRUE,
                           !.approvedUsersEnv = getEnvValue(e, "APPROVED_USERS")]
    IN  IF isDevelopment
        THEN [ret |-> "true", req |-> [rq EXCEPT !.user = Some(DevUser)], res |-> rs,
              loc |-> lc0]
        ELSE IF isWhitelistEmpty(e)
        THEN [ret |-> "false", req |-> rq, loc |-> lc1,
              res |-> Json(rs, 500, Failure(ErrApprovedUsers))]
        ELSE IF ~Truthy(supabaseUrl) \/ ~Truthy(supabaseKey)
        THEN [ret |-> "false", req |-> rq, loc |-> lc1,
              res |-> Json(rs, 500, Failure(ErrSupabaseConfig))]
        ELSE IF ~hasBearer(authHeader)
        THEN [ret |-> "false", req |-> rq, loc |-> lc1,
              res |-> Json(rs, 401, Failure(ErrHeaderRequired))]
        ELSE [ret |-> "await", req |-> rq, res |-> rs,
              loc |-> [lc1 EXCEPT !.token = Some(Substring(authHeader[1], 7))]]

\* authenticateUser from its entry to the first await (or to its return when
\* it returns before awaiting).  ret is "true", "false" or "await".
authenticateUserSync(e, rq, rs) ==
    LET isDevelopment == getEnvValue(e, "NODE_ENV") = Some(<<"development">>)
        APPROVED_USERS == getApprovedUsers(e)
        authHeader == rq.authorization
        supabaseUrl == getEnvValue(e, "SUPABASE_URL")
        supabaseKey == getEnvValue(e, "SUPABASE_ANON_KEY")
        lc0 == [FreshLoc EXCEPT !.isDevelopment = isDevelopment]
        lc1 == [lc0 EXCEPT !.APPROVED_USERS = APPROVED_USERS, !.listRead = TRUE,
                           !.approvedUsersEnv = getEnvValue(e, "APPROVED_USERS")]
    IN  IF isDevelopment
        THEN [ret |-> "true", req |-> [rq EXCEPT !.user = Some(DevUser)], res |-> rs,
              loc |-> lc0]
        ELSE IF isWhitelistEmpty(e)
        THEN [ret |-> "false", req |-> rq, loc |-> lc1,
              res |-> Json(rs, 500, Failure(ErrApprovedUsers))]
        ELSE IF ~hasBearer(authHeader)
        THEN [ret |-> "false", req |-> rq, loc |-> lc1,
              res |-> Json(rs, 401, Failure(ErrHeaderRequired))]
        ELSE IF ~Truthy(supabaseUrl) \/ ~Truthy(supabaseKey)
        THEN [ret |-> "false", req |-> rq,
              loc |-> [lc1 EXCEPT !.token = Some(Substring(authHeader[1], 7))],
              res |-> Json(rs, 500, Failure(ErrSupabaseConfig))]
        ELSE [ret |-> "await", req |-> rq, res |-> rs,
              loc |-> [lc1 EXCEPT !.token = Some(Substring(authHeader[1], 7))]]

\* the answer of a rejected token
InvalidTokenResponse(rs, answer) ==
    Json(rs, 401, Failure(ErrInvalidToken(
        IF answer.error # None
        THEN OrElse(answer.error[1].message, <<"Unknown error">>)
        ELSE <<"Unknown error">>)))

\* the allow-list check is missing
authenticateUserResume_noWhitelist(rq, rs, lc, answer) ==
    IF answer.kind = "throw"
    THEN [ret |-> "false", req |-> rq, res |-> Json(rs, 500, Failure(ErrAuthFailed))]
    ELSE IF answer.error # None \/ answer.user = None
    THEN [ret |-> "false", req |-> rq, res |-> InvalidTokenResponse(rs, answer)]
    ELSE [ret |-> "true", res |-> rs,
          req |-> [rq EXCEPT !.user = Some(AttachedUser(answer.user[1]))]]

\* the allow-list check comes before the check of the authority's error
authenticateUserResume_whitelistFirst(rq, rs, lc, answer) ==
    IF answer.kind = "throw"
    THEN [ret |-> "false", req |-> rq, res |-> Json(rs, 500, Failure(ErrAuthFailed))]
    ELSE IF answer.user = None
            \/ ~Truthy(answer.user[1].email)
            \/ ~Includes(lc.APPROVED_USERS, answer.user[1].email[1])
    THEN [ret |-> "false", req |-> rq,
          res |-> Json(rs, 401, Failure(ErrNotAuthorized))]
    ELSE IF answer.error # None
    THEN [ret |-> "false", req |-> rq, res |-> InvalidTokenResponse(rs, answer)]
    ELSE [ret |-> "true", res |-> rs,
          req |-> [rq EXCEPT !.user = Some(AttachedUser(answer.user[1]))]]

\* only the error is tested, so reading the email of a missing user throws
\* and the catch block answers
authenticateUserResume_errorOnly(rq, rs, lc, answer) ==
    IF answer.kind = "throw"
    THEN [ret |-> "false", req |-> rq, res |-> Json(rs, 500, Failure(ErrAuthFailed))]
    ELSE IF answer.error # None
    THEN [ret |-> "false", req |-> rq, res |-> InvalidTokenResponse(rs, answer)]
    ELSE IF answer.user = None
    THEN [ret |-> "false", req |-> rq, res |-> Json(rs, 500, Failure(ErrAuthFailed))]
    ELSE IF ~Truthy(answer.user[1].email)
            \/ ~Includes(lc.APPROVED_USERS, answer.user[1].email[1])
    THEN [ret |-> "false", req |-> rq,
          res |-> Json(rs, 401, Failure(ErrNotAuthorized))]
    ELSE [ret |-> "true", res |-> rs,
          req |-> [rq EXCEPT !.user = Some(AttachedUser(answer.user[1]))]]

\* a user who is not on the list gets a 200 with a chat-style refusal
authenticateUserResume_friendlyRefusal(rq, rs, lc, answer) ==
    IF answer.kind = "throw"
    THEN [ret |-> "false", req |-> rq, res |-> Json(rs, 500, Failure(ErrAuthFailed))]
    ELSE IF answer.error # None \/ answer.user = None
    THEN [ret |-> "false", req |-> rq, res |-> InvalidTokenResponse(rs, answer)]
    ELSE IF ~Truthy(answer.user[1].email)
            \/ ~Includes(lc.APPROVED_USERS, answer.user[1].email[1])
    THEN [ret |-> "false", req |-> rq,
          res |-> Json(rs, 200, [success |-> TRUE, message |-> <<"no access yet">>])]
    ELSE [ret |-> "true", res |-> rs,
          req |-> [rq EXCEPT !.user = Some(AttachedUser(answer.user[1]))]]


\* a refusal whose "return false" is missing: the response is written and the
\* caller is told to go on
authenticateUserResume_respondAndProceed(rq, rs, lc, answer) ==
    IF answer.kind = "throw"
    THEN [ret |-> "false", req |-> rq, res |-> Json(rs, 500, Failure(ErrAuthFailed))]
    ELSE IF answer.error # None \/ answer.user = None
    THEN [ret |-> "true", req |-> rq, res |-> InvalidTokenResponse(rs, answer)]
    ELSE IF ~Truthy(answer.user[1].email)
            \/ ~Includes(lc.APPROVED_USERS, answer.user[1].email[1])
    THEN [ret |-> "false", req |-> rq,
          res |-> Json(rs, 401, Failure(ErrNotAuthorized))]
    ELSE [ret |-> "true", res |-> rs,
          req |-> [rq EXCEPT !.user = Some(AttachedUser(answer.user[1]))]]


\* a gate that remembers an identity across requests: once some request has
\* an identity attached, it is handed to whoever comes next
authenticateUserResume_cachedIdentity(rq, rs, lc, answer) ==
    LET cached == {r \in ReqIds : req[r].user # NoUser} IN
    IF cached # {}
    THEN [ret |-> "true", res |-> rs,
          req |-> [rq EXCEPT !.user = req[CHOOSE r \in cached : TRUE].user]]
    ELSE IF answer.kind = "throw"
    THEN [ret |-> "false", req |-> rq, res |-> Json(rs, 500, Failure(ErrAuthFailed))]
    ELSE IF answer.error # None \/ answer.user = None
    THEN [ret |-> "false", req |-> rq, res |-> InvalidTokenResponse(rs, answer)]
    ELSE IF ~Truthy(answer.user[1].email)
            \/ ~Includes(lc.APPROVED_USERS, answer.user[1].email[1])
    THEN [ret |-> "false", req |-> rq,
          res |-> Json(rs, 401, Failure(ErrNotAuthorized))]
    ELSE [ret |-> "true", res |-> rs,
          req |-> [rq EXCEPT !.user = Some(AttachedUser(answer.user[1]))]]


\* a refusal that quotes the token it refused
authenticateUserResume_echoToken(rq, rs, lc, answer) ==
    IF answer.kind = "throw"
    THEN [ret |-> "false", req |-> rq, res |-> Json(rs, 500, Failure(ErrAuthFailed))]
    ELSE IF answer.error # None \/ answer.user = None
    THEN [ret |-> "false", req |-> rq,
          res |-> Json(rs, 401, Failure(ErrInvalidToken(lc.token[1])))]
    ELSE IF ~Truthy(answer.user[1].email)
            \/ ~Includes(lc.APPROVED_USERS, answer.user[1].email[1])
    THEN [ret |-> "false", req |-> rq,
          res |-> Json(rs, 401, Failure(ErrNotAuthorized))]
    ELSE [ret |-> "true", res |-> rs,
          req |-> [rq EXCEPT !.user = Some(AttachedUser(answer.user[1]))]]


\* a gate that lets a rejected token through to the handler's own checks
authenticateUserResume_admitRejected(rq, rs, lc, answer) ==
    IF answer.kind = "throw"
    THEN [ret |-> "false", req |-> rq, res |-> Json(rs, 500, Failure(ErrAuthFailed))]
    ELSE IF answer.error # None \/ answer.user = None
    THEN [ret |-> "true", req |-> rq, res |-> rs]
    ELSE IF ~Truthy(answer.user[1].email)
            \/ ~Includes(lc.APPROVED_USERS, answer.user[1].email[1])
    THEN [ret |-> "false", req |-> rq,
          res |-> Json(rs, 401, Failure(ErrNotAuthorized))]
    ELSE [ret |-> "true", res |-> rs,
          req |-> [rq EXCEPT !.user = Some(AttachedUser(answer.user[1]))]]

\* authenticateUser from the return of supabase.auth.getUser() to its own
\* return.  The answer is {data: {user}, error}, or the call threw.
authenticateUserResume(rq, rs, lc, answer) ==
    IF answer.kind = "throw"
    THEN [ret |-> "false", req |-> rq, res |-> Json(rs, 500, Failure(ErrAuthFailed))]
    ELSE IF answer.error # None \/ answer.user = None
    THEN [ret |-> "false", req |-> rq, res |-> InvalidTokenResponse(rs, answer)]
    ELSE IF ~Truthy(answer.user[1].email)
            \/ ~Includes(lc.APPROVED_USERS, answer.user[1].email[1])
    THEN [ret |-> "false", req |-> rq,
          res |-> Json(rs, 401, Failure(ErrNotAuthorized))]
    ELSE [ret |-> "true", res |-> rs,
          req |-> [rq EXCEPT !.user = Some(AttachedUser(answer.user[1]))]]

\* ------------------------------------------------------ chat handler body
ErrOpenAIKey == <<"OpenAI API key not configured">>
ErrMessages == <<"Messages array is required and cannot be empty">>
ErrMessageShape == <<"Each message must have a role and content">>
ErrMessageRole == <<"Message role must be system, user, or assistant">>
ErrQuota == <<"OpenAI API quota exceeded">>
ErrInvalidRequest == <<"Invalid request to OpenAI API">>
ErrGeneric == <<"Failed to process chat request">>

ChatRoles == {<<"system">>, <<"user">>, <<"assistant">>}

\* the validation loop over the messages: the first offending message decides
RECURSIVE validateMessages(_)

\* a validation that looks for a missing role or content in all messages
\* before it looks at any role
validateMessages_shapeFirst(messages) ==
    IF \E i \in 1..Len(messages) :
           ~Truthy(messages[i].role) \/ ~Truthy(messages[i].content)
    THEN Some(ErrMessageShape)
    ELSE IF \E i \in 1..Len(messages) : messages[i].role[1] \notin ChatRoles
    THEN Some(ErrMessageRole)
    ELSE None

validateMessages(messages) ==
    IF messages = <<>> THEN None
    ELSE IF ~Truthy(Head(messages).role) \/ ~Truthy(Head(messages).content)
    THEN Some(ErrMessageShape)
    ELSE IF Head(messages).role[1] \notin ChatRoles
    THEN Some(ErrMessageRole)
    ELSE validateMessages(Tail(messages))

\* the body checks of the handler: the error of the 400 response, or None
validateBody(body) ==
    IF body.messages.kind # "array" \/ Len(body.messages.items) = 0
    THEN Some(ErrMessages)
    ELSE validateMessages(body.messages.items)

\* the catch block of the handler: the response for an error thrown inside
\* the try
chatCatch(rs, err) ==
    IF err.type = Some(<<"insufficient_quota">>)
    THEN Json(rs, 429, Failure(ErrQuota))
    ELSE IF err.type = Some(<<"invalid_request_error">>)
    THEN Json(rs, 400, Failure(OrElse(err.message, ErrInvalidRequest)))
    ELSE Json(rs, 500, Failure(ErrGeneric))

\* the TypeError of destructuring an undefined req.body: it has no error.type
DestructuringError == [kind |-> "throw", content |-> None, type |-> None, message |-> None]

\* an error thrown while the stream is read
ReadError == [kind |-> "throw", content |-> None, type |-> None, message |-> None]

DataEvent(content) == [kind |-> "content", content |-> content]
DoneEvent == [kind |-> "done", content |-> <<"[DONE]">>]
StreamFailedEvent == [kind |-> "error", content |-> <<"Stream failed">>]

\* res.write(event)
Write(rs, event) == [rs EXCEPT !.events = Append(@, event)]


\* a catch that closes the event stream like a successful one
streamCatch_thenDone(rs, err) ==
    [Write(Write(rs, StreamFailedEvent), DoneEvent) EXCEPT !.sent = @ + 1]

\* the catch block around the streaming call: whatever was thrown, the
\* Stream failed event and res.end()
streamCatch(rs, err) == [Write(rs, StreamFailedEvent) EXCEPT !.sent = @ + 1]

\* ----------------------------------------------------------------- inputs
\* dom names the sets the inputs of one specification are drawn from; repeat
\* tells whether a slot takes a further request after it has answered one.
RECURSIVE SeqsUpTo(_, _)
SeqsUpTo(S, n) ==
    IF n = 0 THEN {<<>>}
    ELSE LET shorter == SeqsUpTo(S, n - 1)
         IN  shorter \cup {Append(q, c) : q \in {x \in shorter : Len(x) = n - 1}, c \in S}

Str(word) == <<word>>

ListSymbols == {"a", "b", ",", " "}

AppOrigin == <<HttpsScheme, "app", ".", "example">>
EvilOrigin == <<HttpsScheme, "evil", ".", "example">>
PreviewOrigin == <<HttpsScheme, "unigraph-git-", "feature-x", ".", "vercel", ".", "app">>

BearerT == BearerPrefix \o <<"t", "1">>
LowerBearerT == <<"b", "e", "a", "r", "e", "r", " ", "t", "1">>
BearerNoBlank == <<"B", "e", "a", "r", "e", "r", "t", "1">>
OtherScheme == <<"InvalidFormat", " ", "t", "1">>

AuthorityUsers ==
    [id : {"u1"},
     email : {None, Some(<<>>), Some(<<"a">>), Some(<<"b">>)},
     role : {None, Some(<<>>), Some(<<"authenticated">>)}]

AuthorityErrors == {[message |-> None], [message |-> Some(<<"jwt expired">>)]}

\* what supabase.auth.getUser() can come back with
AuthorityAnswers ==
    {[kind |-> "result", user |-> Some(u), error |-> None] : u \in AuthorityUsers}
    \cup {[kind |-> "result", user |-> None, error |-> Some(x)] : x \in AuthorityErrors}
    \cup {[kind |-> "result", user |-> None, error |-> None],
          [kind |-> "result", error |-> Some([message |-> Some(<<"jwt expired">>)]),
           user |-> Some([id |-> "u1", email |-> Some(<<"a">>), role |-> None])],
          [kind |-> "throw", user |-> None, error |-> None]}

UserMessage == [role |-> Some(<<"user">>), content |-> Some(<<"hi">>)]

\* a JSON object body with a messages array
ChatBody(items, stream) ==
    [kind |-> "object", messages |-> [kind |-> "array", items |-> items], stream |-> stream]

\* a request without a body: req.body is undefined
NoBody == [kind |-> "undefined", messages |-> [kind |-> "missing", items |-> <<>>],
           stream |-> FALSE]

GateBodies ==
    {ChatBody(<<UserMessage>>, FALSE),
     ChatBody(<<UserMessage>>, TRUE),
     [kind |-> "object", messages |-> [kind |-> "missing", items |-> <<>>], stream |-> FALSE]}

CompletionAnswers ==
    {[kind |-> "ok", content |-> Some(<<"hello">>), type |-> None, message |-> None],
     [kind |-> "throw", content |-> None, type |-> Some(<<"insufficient_quota">>),
      message |-> None],
     [kind |-> "throw", content |-> None, type |-> Some(<<"invalid_request_error">>),
      message |-> Some(<<"bad model">>)],
     [kind |-> "throw", content |-> None, type |-> None, message |-> None]}

ChunkContents == {<<>>, <<"he">>, <<"llo">>}

GateDom ==
    [methods |-> {"OPTIONS", "GET", "PUT", "POST"},
     auths |-> {None, Some(<<>>), Some(BearerT), Some(BearerPrefix), Some(LowerBearerT),
                Some(BearerNoBlank), Some(OtherScheme)},
     origins |-> {None, Some(AppOrigin), Some(PreviewOrigin)},
     answers |-> AuthorityAnswers,
     bodies |-> GateBodies,
     chunks |-> {<<>>, <<"he">>},
     completions |-> CompletionAnswers,
     listUpdates |-> {None, Some(<<"a">>), Some(<<"b", ",", "a">>)},
     bodyAtStart |-> FALSE,
     repeat |-> FALSE]

\* process.env as a function of the values of its keys
EnvOf(nodeEnv, approved, url, key, openai, origins, allowAll, vercelUrl, vercelEnv) ==
    [k \in EnvKeys |->
        CASE k = "NODE_ENV" -> nodeEnv
          [] k = "APPROVED_USERS" -> approved
          [] k = "SUPABASE_URL" -> url
          [] k = "SUPABASE_ANON_KEY" -> key
          [] k = "OPENAI_API_KEY" -> openai
          [] k = "ALLOWED_ORIGINS" -> origins
          [] k = "CORS_ALLOW_ALL" -> allowAll
          [] k = "VERCEL_URL" -> vercelUrl
          [] k = "VERCEL_ENV" -> vercelEnv]

NodeEnvs == {None, Some(Str("development")), Some(Str("production"))}
\* every short value, and a few longer lists with two entries
ApprovedUsersEnvs ==
    {None} \cup {Some(x) : x \in SeqsUpTo(ListSymbols, MaxEnvLen)}
           \cup {Some(<<"a", ",", "b">>), Some(<<" ", "a", " ", ",", " ", "b", " ">>),
                 Some(<<"a", "b", ",", ",", "b">>), Some(<<",", " ", ",">>)}
SupabaseUrls == {None, Some(<<HttpsScheme, "proj", ".", "supabase", ".", "co">>)}
SupabaseKeys == {None, Some(Str("anon-key"))}
OpenAIKeys == {None, Some(Str("sk-key"))}

GateEnvs ==
    {EnvOf(n, a, u, k, o, Some(AppOrigin), None, None, None) :
        n \in NodeEnvs, a \in ApprovedUsersEnvs, u \in SupabaseUrls, k \in SupabaseKeys,
        o \in OpenAIKeys}

\* ------------------------------------------------------------------- Init
Init ==
    /\ dom = GateDom
    /\ env \in GateEnvs
    /\ pc = [r \in ReqIds |-> IF r = 1 THEN "idle" ELSE "off"]
    /\ req = [r \in ReqIds |-> FreshReq]
    /\ res = [r \in ReqIds |-> FreshRes]
    /\ loc = [r \in ReqIds |-> FreshLoc]
    /\ cnt = [r \in ReqIds |-> FreshCnt]

\* Two requests in flight at once, with few inputs: the gate under
\* interleaving and under reconfiguration between and during requests.
BearerT2 == BearerPrefix \o <<"t", "2">>

VerifiedAs(email) ==
    [kind |-> "result", error |-> None,
     user |-> Some([id |-> "u1", email |-> Some(email), role |-> None])]

ConcDom ==
    [methods |-> {"GET", "POST"},
     auths |-> {None, Some(BearerT), Some(BearerT2)},
     origins |-> {None},
     answers |-> {VerifiedAs(<<"a">>), VerifiedAs(<<"b">>),
                  [kind |-> "result", user |-> None,
                   error |-> Some([message |-> Some(<<"jwt expired">>)])],
                  [kind |-> "throw", user |-> None, error |-> None]},
     bodies |-> {ChatBody(<<UserMessage>>, FALSE),
                 ChatBody(<<UserMessage>>, TRUE)},
     chunks |-> {<<"he">>},
     completions |-> {[kind |-> "ok", content |-> Some(<<"hello">>), type |-> None,
                       message |-> None]},
     listUpdates |-> {None, Some(<<"a">>), Some(<<"b">>)},
     bodyAtStart |-> FALSE,
     repeat |-> FALSE]

ConcEnvs ==
    {EnvOf(Some(Str("production")), a, Some(<<HttpsScheme, "proj", ".", "supabase", ".", "co">>),
           Some(Str("anon-key")), Some(Str("sk-key")), Some(AppOrigin), None, None, None) :
        a \in {Some(<<"a">>), Some(<<"a", ",", "b">>)}}

InitConc ==
    /\ dom = ConcDom
    /\ env \in ConcEnvs
    /\ pc = [r \in ReqIds |-> "idle"]
    /\ req = [r \in ReqIds |-> FreshReq]
    /\ res = [r \in ReqIds |-> FreshRes]
    /\ loc = [r \in ReqIds |-> FreshLoc]
    /\ cnt = [r \in ReqIds |-> FreshCnt]

\* One request at a time with the origin rules varied and the gate
\* configuration fixed.
LocalhostOrigin == <<"http://localhost:3000">>
PreviewSuffixOrigin ==
    <<HttpsScheme, "unigraph-git-", "x", ".", "vercel", ".", "app", ".", "evil", ".", "example">>
DeploymentUrl == <<"my-app", ".", "vercel", ".", "app">>

CorsDom ==
    [methods |-> {"OPTIONS", "GET", "POST"},
     auths |-> {None, Some(BearerT)},
     origins |-> {None, Some(<<>>), Some(AppOrigin), Some(EvilOrigin), Some(PreviewOrigin),
                  Some(PreviewSuffixOrigin), Some(LocalhostOrigin),
                  Some(<<HttpsScheme>> \o DeploymentUrl)},
     answers |-> {VerifiedAs(<<"a">>),
                  [kind |-> "result", user |-> None,
                   error |-> Some([message |-> Some(<<"jwt expired">>)])]},
     bodies |-> {ChatBody(<<UserMessage>>, FALSE),
                 ChatBody(<<UserMessage>>, TRUE)},
     chunks |-> {<<"he">>},
     completions |-> {[kind |-> "ok", content |-> Some(<<"hello">>), type |-> None,
                       message |-> None]},
     listUpdates |-> {Some(<<"b">>)},
     bodyAtStart |-> FALSE,
     repeat |-> FALSE]

AllowedOriginsEnvs ==
    {None, Some(<<>>), Some(AppOrigin),
     Some(AppOrigin \o <<",", " ">> \o EvilOrigin),
     Some(<<" ">> \o EvilOrigin \o <<" ", ",">> \o AppOrigin),
     Some(AppOrigin \o <<",">> \o <<HttpsScheme>> \o DeploymentUrl)}
CorsAllowAllEnvs == {None, Some(Str("true")), Some(Str("false"))}
VercelUrls == {None, Some(DeploymentUrl)}
VercelEnvs == {None, Some(Str("preview")), Some(Str("production"))}

CorsEnvs ==
    {EnvOf(Some(Str("production")), Some(<<"a">>),
           Some(<<HttpsScheme, "proj", ".", "supabase", ".", "co">>),
           Some(Str("anon-key")), Some(Str("sk-key")), o, all, u, v) :
        o \in AllowedOriginsEnvs, all \in CorsAllowAllEnvs, u \in VercelUrls, v \in VercelEnvs}

InitCors ==
    /\ dom = CorsDom
    /\ env \in CorsEnvs
    /\ pc = [r \in ReqIds |-> IF r = 1 THEN "idle" ELSE "off"]
    /\ req = [r \in ReqIds |-> FreshReq]
    /\ res = [r \in ReqIds |-> FreshRes]
    /\ loc = [r \in ReqIds |-> FreshLoc]
    /\ cnt = [r \in ReqIds |-> FreshCnt]

\* One request at a time with the body fixed when the request arrives, many
\* bodies and every provider answer: the chat handler behind the gate.
NoRoleMessage == [role |-> None, content |-> Some(<<"hi">>)]
EmptyRoleMessage == [role |-> Some(<<>>), content |-> Some(<<"hi">>)]
NoContentMessage == [role |-> Some(<<"user">>), content |-> None]
EmptyContentMessage == [role |-> Some(<<"assistant">>), content |-> Some(<<>>)]
BadRoleMessage == [role |-> Some(<<"invalid_role">>), content |-> Some(<<"hi">>)]
BadRoleNoContentMessage == [role |-> Some(<<"invalid_role">>), content |-> None]
SystemMessage == [role |-> Some(<<"system">>), content |-> Some(<<"be brief">>)]

ChatBodies ==
    {NoBody,
     [kind |-> "object", messages |-> [kind |-> "missing", items |-> <<>>], stream |-> FALSE],
     [kind |-> "object", messages |-> [kind |-> "other", items |-> <<>>], stream |-> TRUE],
     ChatBody(<<>>, FALSE),
     ChatBody(<<UserMessage>>, FALSE), ChatBody(<<UserMessage>>, TRUE),
     ChatBody(<<SystemMessage, UserMessage>>, TRUE),
     ChatBody(<<NoRoleMessage>>, FALSE), ChatBody(<<EmptyRoleMessage>>, TRUE),
     ChatBody(<<NoContentMessage>>, FALSE), ChatBody(<<EmptyContentMessage>>, FALSE),
     ChatBody(<<BadRoleMessage>>, FALSE), ChatBody(<<BadRoleNoContentMessage>>, FALSE),
     ChatBody(<<UserMessage, BadRoleMessage, NoContentMessage>>, FALSE),
     ChatBody(<<SystemMessage, NoContentMessage, BadRoleMessage>>, TRUE)}

ChatDom ==
    [methods |-> {"GET", "POST"},
     auths |-> {None, Some(BearerT)},
     origins |-> {None},
     answers |-> {VerifiedAs(<<"a">>),
                  [kind |-> "result", user |-> None,
                   error |-> Some([message |-> Some(<<"jwt expired">>)])]},
     bodies |-> ChatBodies,
     chunks |-> ChunkContents,
     completions |-> CompletionAnswers,
     listUpdates |-> {Some(<<"b">>)},
     bodyAtStart |-> TRUE,
     repeat |-> FALSE]

ChatEnvs ==
    {EnvOf(Some(Str("production")), Some(<<"a">>),
           Some(<<HttpsScheme, "proj", ".", "supabase", ".", "co">>),
           Some(Str("anon-key")), o, Some(AppOrigin), None, None, None) :
        o \in OpenAIKeys}

InitChat ==
    /\ dom = ChatDom
    /\ env \in ChatEnvs
    /\ pc = [r \in ReqIds |-> IF r = 1 THEN "idle" ELSE "off"]
    /\ req = [r \in ReqIds |-> FreshReq]
    /\ res = [r \in ReqIds |-> FreshRes]
    /\ loc = [r \in ReqIds |-> FreshLoc]
    /\ cnt = [r \in ReqIds |-> FreshCnt]

\* ---------------------------------------------------------------- actions
\* the method check of the chat handler
methodAllowed_orGet(method) == method \in {"POST", "GET"}

methodAllowed(method) == method = "POST"

\* The handler from its entry to its first suspension: configureCORS, the
\* method check and authenticateUser up to supabase.auth.getUser().
HandlerStart(r) ==
    /\ pc[r] = "idle" \/ (pc[r] = "done" /\ dom.repeat)
    /\ \E method \in dom.methods, auth \in dom.auths, origin \in dom.origins,
          body \in (IF dom.bodyAtStart THEN {Some(b) : b \in dom.bodies} ELSE {None}) :
          LET rq == [FreshReq EXCEPT !.method = method, !.authorization = auth,
                                     !.origin = origin, !.body = body]
              cors == configureCORS(env, rq, FreshRes)
              gate == authenticateUserSync(env, rq, cors.res)
          IN  IF cors.preflight
              THEN /\ pc' = [pc EXCEPT ![r] = "done"]
                   /\ req' = [req EXCEPT ![r] = rq]
                   /\ res' = [res EXCEPT ![r] = cors.res]
                   /\ loc' = [loc EXCEPT ![r] = FreshLoc]
                   /\ cnt' = [cnt EXCEPT ![r] = FreshCnt]
              ELSE IF ~methodAllowed(rq.method)
              THEN /\ pc' = [pc EXCEPT ![r] = "done"]
                   /\ req' = [req EXCEPT ![r] = rq]
                   /\ res' = [res EXCEPT ![r] = Json(cors.res, 405, Failure(ErrMethod))]
                   /\ loc' = [loc EXCEPT ![r] = FreshLoc]
                   /\ cnt' = [cnt EXCEPT ![r] = FreshCnt]
              ELSE /\ pc' = [pc EXCEPT ![r] =
                                CASE gate.ret = "true" -> "protected"
                                  [] gate.ret = "false" -> "done"
                                  [] gate.ret = "await" -> "getUser"]
                   /\ req' = [req EXCEPT ![r] = gate.req]
                   /\ res' = [res EXCEPT ![r] = gate.res]
                   /\ loc' = [loc EXCEPT ![r] = gate.loc]
                   /\ cnt' = [cnt EXCEPT ![r] =
                                [FreshCnt EXCEPT !.authRuns = 1,
                                    !.authorityCalls = IF gate.ret = "await" THEN 1 ELSE 0]]
    /\ UNCHANGED <<env, dom>>

\* supabase.auth.getUser() settles and authenticateUser runs to its return.
GetUserReturns(r) ==
    /\ pc[r] = "getUser"
    /\ \E answer \in dom.answers :
          LET gate == authenticateUserResume(req[r], res[r], loc[r], answer)
          IN  /\ pc' = [pc EXCEPT ![r] = IF gate.ret = "true" THEN "protected" ELSE "done"]
              /\ req' = [req EXCEPT ![r] = gate.req]
              /\ res' = [res EXCEPT ![r] = gate.res]
              /\ loc' = [loc EXCEPT ![r].answer = Some(answer)]
    /\ UNCHANGED <<env, cnt, dom>>

\* The handler after authenticateUser returned true: the key check, the body
\* validation and the start of the OpenAI call.  req.body is read here for
\* the first time.
ProtectedLogic(r) ==
    /\ pc[r] = "protected"
    /\ \E body \in (IF req[r].body # None THEN {req[r].body[1]} ELSE dom.bodies) :
       LET invalid == validateBody(body)
       IN  IF ~Truthy(env["OPENAI_API_KEY"])
           THEN /\ res' = [res EXCEPT ![r] = Json(@, 500, Failure(ErrOpenAIKey))]
                /\ pc' = [pc EXCEPT ![r] = "done"]
                /\ cnt' = [cnt EXCEPT ![r].protectedRuns = @ + 1]
           ELSE IF body.kind = "undefined"
           THEN /\ res' = [res EXCEPT ![r] = chatCatch(@, DestructuringError)]
                /\ pc' = [pc EXCEPT ![r] = "done"]
                /\ cnt' = [cnt EXCEPT ![r].protectedRuns = @ + 1]
           ELSE IF invalid # None
           THEN /\ res' = [res EXCEPT ![r] = Json(@, 400, Failure(invalid[1]))]
                /\ pc' = [pc EXCEPT ![r] = "done"]
                /\ cnt' = [cnt EXCEPT ![r].protectedRuns = @ + 1]
           ELSE IF body.stream
           THEN /\ res' = [res EXCEPT ![r] =
                             setHeader(setHeader(setHeader(@,
                                 "Content-Type", <<"text/event-stream">>),
                                 "Cache-Control", <<"no-cache">>),
                                 "Connection", <<"keep-alive">>)]
                /\ pc' = [pc EXCEPT ![r] = "streamCreate"]
                /\ cnt' = [cnt EXCEPT ![r].protectedRuns = @ + 1, ![r].providerCalls = @ + 1]
           ELSE /\ res' = res
                /\ pc' = [pc EXCEPT ![r] = "completion"]
                /\ cnt' = [cnt EXCEPT ![r].protectedRuns = @ + 1, ![r].providerCalls = @ + 1]
    /\ UNCHANGED <<env, req, loc, dom>>

\* openai.chat.completions.create() settles for a non-streaming request.
CompletionReturns(r) ==
    /\ pc[r] = "completion"
    /\ \E answer \in dom.completions :
          /\ res' = [res EXCEPT ![r] =
                       IF answer.kind = "ok"
                       THEN Json(@, 200, [success |-> TRUE,
                                          message |-> OrElse(answer.content, <<>>)])
                       ELSE chatCatch(@, answer)]
          /\ loc' = [loc EXCEPT ![r].completion = Some(answer)]
    /\ pc' = [pc EXCEPT ![r] = "done"]
    /\ UNCHANGED <<env, req, cnt, dom>>

\* openai.chat.completions.create({stream: true}) settles: the stream, or an
\* error the inner catch turns into a Stream failed event.
StreamCreateReturns(r) ==
    /\ pc[r] = "streamCreate"
    /\ \E answer \in dom.completions :
          /\ loc' = [loc EXCEPT ![r].completion = Some(answer)]
          /\ IF answer.kind = "ok"
             THEN /\ pc' = [pc EXCEPT ![r] = "streaming"]
                  /\ res' = res
             ELSE /\ pc' = [pc EXCEPT ![r] = "done"]
                  /\ res' = [res EXCEPT ![r] = streamCatch(@, answer)]
    /\ UNCHANGED <<env, req, cnt, dom>>

\* one iteration of for await (const chunk of stream)
StreamChunk(r) ==
    /\ pc[r] = "streaming"
    /\ Len(loc[r].chunks) < MaxChunks
    /\ \E content \in dom.chunks :
          /\ res' = [res EXCEPT ![r] =
                       IF content # <<>> THEN Write(@, DataEvent(content)) ELSE @]
          /\ loc' = [loc EXCEPT ![r].chunks = Append(@, content)]
    /\ UNCHANGED <<env, pc, req, cnt, dom>>

\* the stream is exhausted: the [DONE] event and res.end()
StreamFinish(r) ==
    /\ pc[r] = "streaming"
    /\ res' = [res EXCEPT ![r] = [Write(@, DoneEvent) EXCEPT !.sent = @ + 1]]
    /\ pc' = [pc EXCEPT ![r] = "done"]
    /\ UNCHANGED <<env, req, loc, cnt, dom>>

\* reading the stream throws: the inner catch writes Stream failed and ends
StreamFails(r) ==
    /\ pc[r] = "streaming"
    /\ res' = [res EXCEPT ![r] = streamCatch(@, ReadError)]
    /\ pc' = [pc EXCEPT ![r] = "done"]
    /\ UNCHANGED <<env, req, loc, cnt, dom>>

\* APPROVED_USERS is reconfigured while the process runs
SetApprovedUsers ==
    /\ \E v \in dom.listUpdates :
          /\ env["APPROVED_USERS"] # v
          /\ env' = [env EXCEPT !["APPROVED_USERS"] = v]
    /\ UNCHANGED <<pc, req, res, loc, cnt, dom>>

Next ==
    \/ \E r \in ReqIds : HandlerStart(r)
    \/ \E r \in ReqIds : GetUserReturns(r)
    \/ \E r \in ReqIds : ProtectedLogic(r)
    \/ \E r \in ReqIds : CompletionReturns(r)
    \/ \E r \in ReqIds : StreamCreateReturns(r)
    \/ \E r \in ReqIds : StreamChunk(r)
    \/ \E r \in ReqIds : StreamFinish(r)
    \/ \E r \in ReqIds : StreamFails(r)
    \/ SetApprovedUsers

Spec == Init /\ [][Next]_vars

SpecConc == InitConc /\ [][Next]_vars

SpecCors == InitCors /\ [][Next]_vars

SpecChat == InitChat /\ [][Next]_vars

TypeOK ==
    /\ \A r \in ReqIds : pc[r] \in {"off", "idle", "getUser", "protected", "completion",
                                   "streamCreate", "streaming", "signIn", "signUp", "done"}
    /\ \A r \in ReqIds : res[r].sent \in 0..2

\* ------------------------------------------------- vocabulary of the claims
Started(r) == pc[r] \notin {"off", "idle"}

\* the protected logic of the handler is about to run, is running or has run
Authorised(r) ==
    \/ pc[r] \in {"protected", "completion", "streamCreate", "streaming"}
    \/ cnt[r].protectedRuns > 0

Contains(text, symbol) == \E i \in 1..Len(text) : text[i] = symbol

\* the response is the JSON failure body with this status and an error text
\* that contains the symbol
FailureWith(r, code, symbol) ==
    /\ res[r].status = code
    /\ res[r].sent = 1
    /\ res[r].body # None
    /\ res[r].body[1].success = FALSE
    /\ Contains(res[r].body[1].error, symbol)

NonDevMode == env["NODE_ENV"] # Some(<<"development">>)

\* the raw APPROVED_USERS value has no entry: unset, or nothing but blanks and
\* commas
RawListEmpty(v) == v = None \/ \A i \in 1..Len(v[1]) : v[1][i] \in {" ", ","}

\* the header is present and its first seven characters are B e a r e r blank
BeginsWithBearer(h) ==
    /\ h # None
    /\ Len(h[1]) >= 7
    /\ h[1][1] = "B" /\ h[1][2] = "e" /\ h[1][3] = "a" /\ h[1][4] = "r"
    /\ h[1][5] = "e" /\ h[1][6] = "r" /\ h[1][7] = " "

Verified(answer) == answer.kind = "result" /\ answer.error = None /\ answer.user # None

Rejected(answer) == answer.kind = "result" /\ (answer.error # None \/ answer.user = None)

\* the email is one of the comma-separated entries of the raw value, blanks
\* around an entry not counting
ListedIn(v, email) ==
    /\ v # None
    /\ email # <<>>
    /\ \E i \in 1..Len(v[1]), j \in 0..Len(v[1]) :
          /\ i <= j + 1
          /\ (i = 1 \/ v[1][i - 1] = ",")
          /\ (j = Len(v[1]) \/ v[1][j + 1] = ",")
          /\ \A k \in i..j : v[1][k] # ","
          /\ \E a \in i..j, b \in i..j :
                /\ SubSeq(v[1], a, b) = email
                /\ \A k \in i..(a - 1) : v[1][k] = " "
                /\ \A k \in (b + 1)..j : v[1][k] = " "
                /\ v[1][a] # " " /\ v[1][b] # " "

\* C1: in non-development mode the protected logic runs for a request only if
\* the request is a POST, the allow-list read for it is non-empty, its
\* Authorization header starts with "Bearer ", the authority verified the
\* token and the verified email is an entry of that allow-list.
C1_ProtectedOnlyAfterGate ==
    \A r \in ReqIds :
        (NonDevMode /\ Authorised(r)) =>
            /\ req[r].method = "POST"
            /\ loc[r].listRead /\ ~RawListEmpty(loc[r].approvedUsersEnv)
            /\ BeginsWithBearer(req[r].authorization)
            /\ loc[r].answer # None /\ Verified(loc[r].answer[1])
            /\ loc[r].answer[1].user[1].email # None
            /\ ListedIn(loc[r].approvedUsersEnv, loc[r].answer[1].user[1].email[1])

C1_Witness ==
    \E r \in ReqIds : NonDevMode /\ cnt[r].protectedRuns = 1 /\ req[r].method = "POST"

\* C2: an OPTIONS request is answered 200 with Access-Control-Allow-Origin and
\* Access-Control-Allow-Methods set, whatever its header, the allow-list and
\* the mode; the authority is not called and neither authenticateUser nor the
\* protected logic runs.
C2_PreflightShortCircuit ==
    \A r \in ReqIds :
        (Started(r) /\ req[r].method = "OPTIONS") =>
            /\ pc[r] = "done"
            /\ res[r].status = 200 /\ res[r].sent = 1 /\ res[r].body = None
            /\ res[r].headers["Access-Control-Allow-Origin"] # None
            /\ res[r].headers["Access-Control-Allow-Methods"] # None
            /\ cnt[r].authorityCalls = 0 /\ loc[r].answer = None
            /\ cnt[r].authRuns = 0
            /\ cnt[r].protectedRuns = 0

C2_Witness ==
    \E r \in ReqIds :
        /\ Started(r) /\ req[r].method = "OPTIONS"
        /\ req[r].origin = Some(PreviewOrigin)
        /\ BeginsWithBearer(req[r].authorization)
        /\ ~NonDevMode

\* C3: a request that is neither POST nor OPTIONS is answered 405 with
\* success false and an error containing "Method not allowed"; the authority
\* is not called, whatever the header and the allow-list.
C3_MethodBeforeAuth ==
    \A r \in ReqIds :
        (Started(r) /\ req[r].method \notin {"POST", "OPTIONS"}) =>
            /\ pc[r] = "done"
            /\ FailureWith(r, 405, "Method not allowed")
            /\ cnt[r].authorityCalls = 0 /\ loc[r].answer = None
            /\ cnt[r].authRuns = 0

C3_Witness ==
    \E r \in ReqIds :
        /\ Started(r) /\ req[r].method = "GET"
        /\ req[r].authorization = None
        /\ NonDevMode /\ RawListEmpty(env["APPROVED_USERS"])
        /\ res[r].status = 405

\* C4: in non-development mode, when APPROVED_USERS is unset, empty, blank or
\* without a non-empty entry, every POST is answered 500 with an error that
\* mentions APPROVED_USERS, whatever its Authorization header; the authority
\* is not called and the protected logic does not run.
C4_EmptyListFailsClosed ==
    \A r \in ReqIds :
        (NonDevMode /\ Started(r) /\ req[r].method = "POST"
             /\ RawListEmpty(loc[r].approvedUsersEnv)) =>
            /\ pc[r] = "done"
            /\ FailureWith(r, 500, "APPROVED_USERS")
            /\ cnt[r].authorityCalls = 0 /\ loc[r].answer = None
            /\ ~Authorised(r)

C4_Witness ==
    \E r \in ReqIds :
        /\ NonDevMode /\ Started(r) /\ req[r].method = "POST"
        /\ loc[r].approvedUsersEnv = Some(<<",", " ">>)
        /\ BeginsWithBearer(req[r].authorization)
        /\ Truthy(env["SUPABASE_URL"]) /\ Truthy(env["SUPABASE_ANON_KEY"])
        /\ res[r].status = 500

\* C5: in non-development mode with a non-empty allow-list, a POST whose
\* Authorization header is absent or does not begin with exactly "Bearer "
\* is answered 401 with success false and an error containing
\* "Authorization header required", and the authority is not called.
C5_MissingHeader ==
    \A r \in ReqIds :
        (NonDevMode /\ Started(r) /\ req[r].method = "POST"
             /\ ~RawListEmpty(loc[r].approvedUsersEnv)
             /\ ~BeginsWithBearer(req[r].authorization)) =>
            /\ pc[r] = "done"
            /\ FailureWith(r, 401, "Authorization header required")
            /\ cnt[r].authorityCalls = 0 /\ loc[r].answer = None

C5_Witness ==
    \E r \in ReqIds :
        /\ NonDevMode /\ Started(r) /\ req[r].method = "POST"
        /\ ~RawListEmpty(loc[r].approvedUsersEnv)
        /\ req[r].authorization = Some(LowerBearerT)
        /\ res[r].status = 401

\* C6: in non-development mode with a non-empty allow-list and the Supabase
\* configuration present, a POST with a "Bearer " header whose token the
\* authority rejects is answered 401 with an error containing "Invalid or
\* expired token" and never with "User is not authorized", whatever the
\* allow-list contains.
C6_RejectedTokenIsInvalidToken ==
    \A r \in ReqIds :
        (NonDevMode /\ Started(r) /\ req[r].method = "POST"
             /\ loc[r].answer # None /\ Rejected(loc[r].answer[1])) =>
            /\ pc[r] = "done"
            /\ ~RawListEmpty(loc[r].approvedUsersEnv)
            /\ BeginsWithBearer(req[r].authorization)
            /\ FailureWith(r, 401, "Invalid or expired token")
            /\ res[r].body[1].error # ErrNotAuthorized
            /\ ~Contains(res[r].body[1].error, "User is not authorized")

C6_Witness ==
    \E r \in ReqIds :
        /\ NonDevMode /\ Started(r) /\ req[r].method = "POST"
        /\ loc[r].answer # None /\ Rejected(loc[r].answer[1])
        /\ loc[r].answer[1].user = None
        /\ loc[r].APPROVED_USERS = << <<"b">> >>
        /\ res[r].status = 401

ExpectedUser(u) ==
    [id |-> u.id, email |-> u.email[1],
     role |-> IF u.role = None \/ u.role = Some(<<>>) THEN <<"user">> ELSE u.role[1]]

\* the request was verified by the authority and its email is on the list
VerifiedAndListed(r) ==
    /\ NonDevMode /\ Started(r) /\ req[r].method = "POST"
    /\ loc[r].answer # None /\ Verified(loc[r].answer[1])
    /\ loc[r].answer[1].user[1].email # None
    /\ ListedIn(loc[r].approvedUsersEnv, loc[r].answer[1].user[1].email[1])

\* C9: in non-development mode, for a POST whose token the authority verifies
\* and whose email equals an entry of APPROVED_USERS (split on commas, each
\* entry trimmed), the gate attaches the authority's id and email with the
\* authority's role, or "user" when there is none, writes no response itself,
\* and the protected logic starts exactly once.
C9_ListedUserAuthorised ==
    \A r \in ReqIds :
        VerifiedAndListed(r) =>
            /\ req[r].user = Some(ExpectedUser(loc[r].answer[1].user[1]))
            /\ Authorised(r)
            /\ pc[r] = "protected" =>
                   /\ cnt[r].protectedRuns = 0
                   /\ res[r].sent = 0 /\ res[r].status = 0 /\ res[r].body = None
            /\ pc[r] # "protected" => cnt[r].protectedRuns = 1

C9_Witness ==
    \E r \in ReqIds :
        /\ VerifiedAndListed(r)
        /\ loc[r].approvedUsersEnv = Some(<<" ", "a", " ", ",", " ", "b", " ">>)
        /\ loc[r].answer[1].user[1].email = Some(<<"b">>)
        /\ loc[r].answer[1].user[1].role = None
        /\ cnt[r].protectedRuns = 1

\* C10: when NODE_ENV is "development", authenticateUser authorises every
\* request with the identity dev-user-id / dev@localhost / admin, whatever the
\* Authorization header, the allow-list and the Supabase configuration; it
\* does not call the authority and writes no response.
C10_DevelopmentBypass ==
    \A r \in ReqIds :
        (~NonDevMode /\ Started(r) /\ cnt[r].authRuns = 1) =>
            /\ req[r].user =
                   Some([id |-> "dev-user-id", email |-> <<"dev@localhost">>,
                         role |-> <<"admin">>])
            /\ Authorised(r)
            /\ cnt[r].authorityCalls = 0 /\ loc[r].answer = None
            /\ pc[r] = "protected" => res[r].sent = 0 /\ res[r].body = None

C10_Witness ==
    \E r \in ReqIds :
        /\ ~NonDevMode /\ Started(r) /\ cnt[r].authRuns = 1
        /\ req[r].authorization = None
        /\ env["SUPABASE_URL"] = None
        /\ pc[r] = "protected"

\* ---------------------------------------------------------------- C11
\* the request ended without the protected logic having run and was not a
\* preflight: the method check or the gate refused it
Denied(r) == pc[r] = "done" /\ cnt[r].protectedRuns = 0 /\ req[r].method # "OPTIONS"

FailureStatuses == {401, 405, 500}

GateRan(r) == cnt[r].authRuns = 1

\* authenticateUser has returned false: the request is over and the protected
\* logic never started
GateDenied(r) == GateRan(r) /\ pc[r] = "done" /\ cnt[r].protectedRuns = 0

\* the state of a request the gate handled: no response while the authority
\* call is pending, no response at the moment the gate lets the request
\* through, exactly one response with a failure status when it refuses; a
\* thrown authority call is one of the refusals
C12_GateState ==
    \A r \in ReqIds :
        /\ res[r].sent <= 1
        /\ GateRan(r) =>
              /\ pc[r] \in {"getUser", "protected"} =>
                    (res[r].sent = 0 /\ res[r].status = 0 /\ res[r].body = None)
              /\ GateDenied(r) =>
                    (res[r].sent = 1 /\ res[r].status \in FailureStatuses /\ ~Authorised(r))
              /\ (loc[r].answer # None /\ loc[r].answer[1].kind = "throw") => GateDenied(r)
              /\ GateDenied(r) \/ Authorised(r) \/ pc[r] = "getUser"
                   \/ (pc[r] = "done" /\ cnt[r].protectedRuns = 1)

\* a step taken once the gate has refused changes nothing of that request
C12_DenialIsFinal ==
    \A r \in ReqIds :
        GateDenied(r) =>
            /\ res'[r] = res[r] /\ req'[r] = req[r]
            /\ pc'[r] = "done" /\ cnt'[r] = cnt[r]

\* C12: the gate either lets a request through without writing a response
\* or writes exactly one terminal response and returns false; a throwing
\* authority call ends in such a response, not in an exception; after a
\* refusal nothing more is written and the protected logic does not run.
C12_OneResponseOrNone == []C12_GateState /\ [][C12_DenialIsFinal]_vars

\* the gate refused after the authority call threw, and the environment took
\* a further step afterwards
C12_Witness ==
    /\ GateDenied(1)
    /\ loc[1].answer # None /\ loc[1].answer[1].kind = "throw"
    /\ res[1].sent = 1
    /\ env["APPROVED_USERS"] # loc[1].approvedUsersEnv

\* ---------------------------------------------------------------- C15
\* the conditions under which the claim expects the authority to be called,
\* read from the request and from the configuration e
CallExpected(e, rq) ==
    /\ rq.method = "POST"
    /\ e["NODE_ENV"] # Some(<<"development">>)
    /\ ~RawListEmpty(e["APPROVED_USERS"])
    /\ BeginsWithBearer(rq.authorization)
    /\ Truthy(e["SUPABASE_URL"])
    /\ Truthy(e["SUPABASE_ANON_KEY"])

\* the step that takes a request from idle
Starts(r) == pc[r] = "idle" /\ pc'[r] # "idle"

\* the handler's first step makes the call exactly under the expected
\* conditions, evaluated on the configuration of that moment; no later step
\* of the request makes another call
C15_CallStep ==
    \A r \in ReqIds :
        /\ Starts(r) =>
              /\ cnt'[r].authorityCalls = (IF CallExpected(env, req'[r]) THEN 1 ELSE 0)
              /\ (pc'[r] = "getUser") = CallExpected(env, req'[r])
        /\ ~Starts(r) => cnt'[r].authorityCalls = cnt[r].authorityCalls

C15_CallCount ==
    \A r \in ReqIds :
        /\ cnt[r].authorityCalls \in {0, 1}
        /\ pc[r] = "getUser" => cnt[r].authorityCalls = 1

\* C15: a request causes at most one call of the Identity Authority, never a
\* second one, and exactly one precisely when it is a POST in
\* non-development mode with a non-empty allow-list, a header beginning with
\* "Bearer " and non-empty SUPABASE_URL and SUPABASE_ANON_KEY.
C15_OneAuthorityCall == []C15_CallCount /\ [][C15_CallStep]_vars

\* the one call was made, was rejected, and the request ended with it
C15_Witness ==
    /\ pc[1] = "done"
    /\ cnt[1].authorityCalls = 1
    /\ loc[1].answer # None /\ Rejected(loc[1].answer[1])
    /\ res[1].status = 401

\* ---------------------------------------------------------------- C13
\* a non-development POST leaves idle: the gate's call begins
GateCallBegins(r) == Starts(r) /\ NonDevMode /\ req'[r].method = "POST"

\* the call reads the value APPROVED_USERS has at that moment, and a value
\* without an entry is answered 500 at once
C13_ReadAtCall ==
    \A r \in ReqIds :
        GateCallBegins(r) =>
            /\ loc'[r].listRead
            /\ loc'[r].approvedUsersEnv = env["APPROVED_USERS"]
            /\ \A i \in 1..Len(loc'[r].APPROVED_USERS) :
                   ListedIn(env["APPROVED_USERS"], loc'[r].APPROVED_USERS[i])
            /\ RawListEmpty(env["APPROVED_USERS"]) <=>
                   (pc'[r] = "done" /\ res'[r].status = 500 /\ res'[r].body # None
                      /\ res'[r].body[1] = Failure(ErrApprovedUsers))

\* a verified user is admitted exactly if the email is an entry of the value
\* read at the request's call
C13_DecidedByValueRead ==
    \A r \in ReqIds :
        (NonDevMode /\ Started(r) /\ loc[r].answer # None /\ Verified(loc[r].answer[1])) =>
            /\ loc[r].answer[1].user[1].email # None
                  /\ ListedIn(loc[r].approvedUsersEnv, loc[r].answer[1].user[1].email[1])
               => Authorised(r)
            /\ ~(loc[r].answer[1].user[1].email # None
                  /\ ListedIn(loc[r].approvedUsersEnv, loc[r].answer[1].user[1].email[1]))
               => FailureWith(r, 401, "User is not authorized")

Refusal(code, err) == [allowed |-> FALSE, status |-> code, error |-> err, user |-> NoUser]

\* what a request handled alone gets in non-development mode with the
\* Supabase configuration present: a function of its method, its header, the
\* APPROVED_USERS value at its call and the authority's answer to it
AloneOutcome(method, authorization, listValue, answer) ==
    IF method # "POST" THEN Refusal(405, ErrMethod)
    ELSE IF RawListEmpty(listValue) THEN Refusal(500, ErrApprovedUsers)
    ELSE IF ~BeginsWithBearer(authorization) THEN Refusal(401, ErrHeaderRequired)
    ELSE IF answer.kind = "throw" THEN Refusal(500, ErrAuthFailed)
    ELSE IF Rejected(answer)
    THEN Refusal(401, ErrInvalidToken(IF answer.error # None /\ Truthy(answer.error[1].message)
                                      THEN answer.error[1].message[1]
                                      ELSE <<"Unknown error">>))
    ELSE IF answer.user[1].email = None
              \/ ~ListedIn(listValue, answer.user[1].email[1])
    THEN Refusal(401, ErrNotAuthorized)
    ELSE [allowed |-> TRUE, status |-> 0, error |-> <<>>,
          user |-> Some(ExpectedUser(answer.user[1]))]

\* what the request got: let through with an identity, or refused with a
\* status and an error
Outcome(r) ==
    IF Authorised(r)
    THEN [allowed |-> TRUE, status |-> 0, error |-> <<>>, user |-> req[r].user]
    ELSE [allowed |-> FALSE, status |-> res[r].status,
          error |-> IF res[r].body = None THEN <<>> ELSE res[r].body[1].error,
          user |-> req[r].user]

\* the method check and the gate are through with the request
Decided(r) == Started(r) /\ pc[r] # "getUser" /\ req[r].method # "OPTIONS"

\* the authority's answer to the request; a request refused before the call
\* has none, and its outcome does not depend on one
AnswerTo(r) ==
    IF loc[r].answer # None THEN loc[r].answer[1] ELSE [kind |-> "throw", user |-> None, error |-> None]

\* C14: the gate keeps nothing from one request to another: whatever other
\* requests are in flight, finished or not yet begun, and in whatever order
\* the authority answers them, a request gets the status, error and identity
\* that its own method, header, allow-list value and authority answer
\* determine; two requests equal in these get equal outcomes.
C14_OutcomeAsIfAlone ==
    /\ NonDevMode
    /\ \A r \in ReqIds :
          Decided(r) =>
              Outcome(r) = AloneOutcome(req[r].method, req[r].authorization,
                                        loc[r].approvedUsersEnv, AnswerTo(r))
    /\ \A r1, r2 \in ReqIds :
          (Decided(r1) /\ Decided(r2)
             /\ req[r1].method = req[r2].method
             /\ req[r1].authorization = req[r2].authorization
             /\ req[r1].origin = req[r2].origin
             /\ loc[r1].approvedUsersEnv = loc[r2].approvedUsersEnv
             /\ loc[r1].answer = loc[r2].answer) =>
              Outcome(r1) = Outcome(r2)

\* two requests with the same token were awaiting the authority together;
\* one has since been admitted as user a, the other refused as user b
C14_Witness ==
    /\ req[1].authorization = Some(BearerT) /\ req[2].authorization = Some(BearerT)
    /\ loc[1].approvedUsersEnv = Some(<<"a">>) /\ loc[2].approvedUsersEnv = Some(<<"a">>)
    /\ loc[1].answer = Some(VerifiedAs(<<"b">>)) /\ loc[2].answer = Some(VerifiedAs(<<"a">>))
    /\ Outcome(1) = Refusal(401, ErrNotAuthorized)
    /\ Outcome(2).allowed /\ cnt[2].protectedRuns = 1

\* ---------------------------------------------------------------- C16
\* the text has the token as a run of consecutive symbols
Quotes(text, token) ==
    \E i \in 1..Len(text) :
        i + Len(token) - 1 <= Len(text) /\ SubSeq(text, i, i + Len(token) - 1) = token

\* what follows "Bearer " in the request's header
TokenOf(r) == SubSeq(req[r].authorization[1], 8, Len(req[r].authorization[1]))

\* the gate was called with a bearer token and has refused the request
RefusedWithToken(r) ==
    GateDenied(r) /\ BeginsWithBearer(req[r].authorization) /\ TokenOf(r) # <<>>

\* C16: a response written by the gate never quotes the bearer token, in its
\* error text or in a header, and two requests that differ in nothing but
\* the token and get the same answer from the authority get the same status
\* and the same body.
C16_TokenNotInResponse ==
    /\ \A r \in ReqIds :
          RefusedWithToken(r) =>
              /\ ~Quotes(res[r].body[1].error, TokenOf(r))
              /\ \A h \in HeaderNames :
                    res[r].headers[h] # None => ~Quotes(res[r].headers[h][1], TokenOf(r))
    /\ \A r1, r2 \in ReqIds :
          (Decided(r1) /\ Decided(r2)
             /\ BeginsWithBearer(req[r1].authorization)
             /\ BeginsWithBearer(req[r2].authorization)
             /\ req[r1].method = req[r2].method
             /\ req[r1].origin = req[r2].origin
             /\ loc[r1].approvedUsersEnv = loc[r2].approvedUsersEnv
             /\ loc[r1].answer = loc[r2].answer) =>
              /\ Outcome(r1) = Outcome(r2)
              /\ GateDenied(r1) => (res[r1].status = res[r2].status /\ res[r1].body = res[r2].body)

\* two requests with different tokens got the same rejection from the
\* authority and the same refusal from the gate
C16_Witness ==
    /\ req[1].authorization = Some(BearerT) /\ req[2].authorization = Some(BearerT2)
    /\ RefusedWithToken(1) /\ RefusedWithToken(2)
    /\ loc[1].answer # None /\ Rejected(loc[1].answer[1])
    /\ loc[1].answer = loc[2].answer
    /\ res[1].status = 401 /\ res[1].body = res[2].body

\* ------------------------------------------------------------ C17 - C20
\* the final value of the response's Access-Control-Allow-Origin header
AllowOrigin(r) == res[r].headers["Access-Control-Allow-Origin"]

AllowAll == env["CORS_ALLOW_ALL"] = Some(<<"true">>)

\* the origin has the form https://unigraph-git-<label>.vercel.app, the
\* label being one or more symbols other than the dot
IsPreviewOrigin(o) ==
    /\ o # None
    /\ Len(o[1]) >= 7
    /\ o[1][1] = HttpsScheme /\ o[1][2] = "unigraph-git-"
    /\ \A i \in 3..(Len(o[1]) - 4) : o[1][i] # "."
    /\ SubSeq(o[1], Len(o[1]) - 3, Len(o[1])) = <<".", "vercel", ".", "app">>

\* the origin begins like a preview origin; configureCORS treats it as one
\* whatever follows .vercel.app
BeginsLikePreview(o) ==
    /\ o # None
    /\ \E k \in 7..Len(o[1]) : IsPreviewOrigin(Some(SubSeq(o[1], 1, k)))

\* C17: with CORS_ALLOW_ALL = "true" the final Access-Control-Allow-Origin is
\* "*" for every origin that is not a preview origin, whatever ALLOWED_ORIGINS
\* and VERCEL_URL are.
C17_AllowAllSendsWildcard ==
    \A r \in ReqIds :
        (Started(r) /\ AllowAll /\ ~BeginsLikePreview(req[r].origin)) =>
            AllowOrigin(r) = Some(Wildcard)

\* allow-all is on, a deployment URL is present, and a foreign origin was
\* answered with the deployment origin in place of the wildcard
C17_Witness ==
    /\ Started(1) /\ AllowAll
    /\ env["VERCEL_URL"] = Some(DeploymentUrl)
    /\ req[1].origin = Some(EvilOrigin)
    /\ AllowOrigin(1) = Some(<<HttpsScheme>> \o DeploymentUrl)

C19_NothingSetSendsWildcard ==
    \A r \in ReqIds :
        (Started(r) /\ ~AllowAll /\ env["ALLOWED_ORIGINS"] = None /\ env["VERCEL_URL"] = None
            /\ ~BeginsLikePreview(req[r].origin)) =>
            AllowOrigin(r) = Some(Wildcard)

\* nothing is configured and a foreign origin was answered with the built-in
\* localhost origin
C19_Witness ==
    /\ Started(1) /\ env["CORS_ALLOW_ALL"] = None
    /\ env["ALLOWED_ORIGINS"] = None /\ env["VERCEL_URL"] = None /\ env["VERCEL_ENV"] = None
    /\ req[1].origin = Some(EvilOrigin)
    /\ AllowOrigin(1) = Some(LocalhostOrigin)

\* the allow-list the claim describes: the entries of ALLOWED_ORIGINS in
\* their order, then https://<VERCEL_URL> unless it is among them
EffectiveAllowList ==
    LET entries == IF Truthy(env["ALLOWED_ORIGINS"])
                   THEN MapTrim(Split(env["ALLOWED_ORIGINS"][1]))
                   ELSE <<>>
    IN  IF Truthy(env["VERCEL_URL"])
        THEN PushIfAbsent(entries, <<HttpsScheme>> \o env["VERCEL_URL"][1])
        ELSE entries

\* C20: with CORS_ALLOW_ALL not "true" and an origin that is not a preview
\* origin, Access-Control-Allow-Origin echoes the origin if it is in the
\* effective allow-list (the ALLOWED_ORIGINS entries, then https://<VERCEL_URL>
\* once); otherwise, the list being non-empty, it is the list's first entry:
\* an unlisted origin is never echoed and the wildcard never sent.
C20_ListedEchoedElseFirstEntry ==
    \A r \in ReqIds :
        (Started(r) /\ ~AllowAll /\ ~BeginsLikePreview(req[r].origin)) =>
            /\ (Truthy(req[r].origin) /\ Includes(EffectiveAllowList, req[r].origin[1])) =>
                   AllowOrigin(r) = req[r].origin
            /\ (~(Truthy(req[r].origin) /\ Includes(EffectiveAllowList, req[r].origin[1]))
                  /\ Len(EffectiveAllowList) > 0) =>
                   /\ AllowOrigin(r) = Some(EffectiveAllowList[1])
                   /\ AllowOrigin(r) # req[r].origin
                   /\ AllowOrigin(r) # Some(Wildcard)

\* only the deployment URL is configured and a foreign origin was answered
\* with the built-in localhost origin, not with the deployment origin
C20_Witness ==
    /\ Started(1) /\ ~AllowAll
    /\ env["ALLOWED_ORIGINS"] = None /\ env["VERCEL_URL"] = Some(DeploymentUrl)
    /\ req[1].origin = Some(EvilOrigin)
    /\ EffectiveAllowList = << <<HttpsScheme>> \o DeploymentUrl >>
    /\ AllowOrigin(1) = Some(LocalhostOrigin)

\* the rules of C20 where ALLOWED_ORIGINS is set, the built-in default then
\* playing no part
C20_HoldsWithConfiguredList ==
    \A r \in ReqIds :
        (Started(r) /\ ~AllowAll /\ ~BeginsLikePreview(req[r].origin)
            /\ Truthy(env["ALLOWED_ORIGINS"])) =>
            /\ (Truthy(req[r].origin) /\ Includes(EffectiveAllowList, req[r].origin[1])) =>
                   AllowOrigin(r) = req[r].origin
            /\ ~(Truthy(req[r].origin) /\ Includes(EffectiveAllowList, req[r].origin[1])) =>
                   /\ AllowOrigin(r) = Some(EffectiveAllowList[1])
                   /\ AllowOrigin(r) # req[r].origin
                   /\ AllowOrigin(r) # Some(Wildcard)

\* ---------------------------------------------------------------- C21
\* what configureCORS leaves and returns for the request as it arrived
CorsResultOf(r) == configureCORS(env, [req[r] EXCEPT !.user = NoUser], FreshRes)

\* C21: whichever path configureCORS takes (wildcard, preview origin,
\* allow-list echo, first-entry fallback, preflight) the response carries
\* Access-Control-Allow-Credentials "true", the fixed Allow-Methods and
\* Allow-Headers values and some Access-Control-Allow-Origin; it returns true
\* exactly for OPTIONS, the response then ended once with 200 and no body,
\* and otherwise returns false with status and body untouched.
C21_CorsHeadersAndPreflight ==
    \A r \in ReqIds :
        Started(r) =>
            /\ res[r].headers["Access-Control-Allow-Credentials"] = Some(<<"true">>)
            /\ res[r].headers["Access-Control-Allow-Methods"]
                   = Some(<<"GET, POST, PUT, DELETE, OPTIONS">>)
            /\ res[r].headers["Access-Control-Allow-Headers"]
                   = Some(<<"Content-Type, Authorization, X-Requested-With">>)
            /\ AllowOrigin(r) # None /\ AllowOrigin(r)[1] # <<>>
            /\ AllowOrigin(r) = CorsResultOf(r).res.headers["Access-Control-Allow-Origin"]
            /\ CorsResultOf(r).preflight = (req[r].method = "OPTIONS")
            /\ req[r].method = "OPTIONS" =>
                   /\ pc[r] = "done" /\ cnt[r].authRuns = 0
                   /\ res[r].status = 200 /\ res[r].sent = 1 /\ res[r].body = None
                   /\ res[r].events = <<>>
            /\ req[r].method # "OPTIONS" =>
                   /\ CorsResultOf(r).res.status = 0 /\ CorsResultOf(r).res.sent = 0
                   /\ CorsResultOf(r).res.body = None
                   /\ pc[r] \in {"getUser", "protected"} =>
                          (res[r].status = 0 /\ res[r].sent = 0 /\ res[r].body = None)

\* a preflight from a preview origin was ended with the headers in place
C21_Witness ==
    /\ Started(1) /\ req[1].method = "OPTIONS"
    /\ req[1].origin = Some(PreviewSuffixOrigin)
    /\ res[1].status = 200
    /\ res[1].headers["Access-Control-Allow-Credentials"] = Some(<<"true">>)

\* ---------------------------------------------------------------- C25
\* the message lacks a role or a content, or its role is not one of the three
BadMessage(m) ==
    \/ m.role = None \/ m.role = Some(<<>>)
    \/ m.content = None \/ m.content = Some(<<>>)
    \/ m.role[1] \notin {<<"system">>, <<"user">>, <<"assistant">>}

\* the body the request arrived with would not pass the handler's validation
ArrivedWithBadBody(r) ==
    /\ req[r].body # None
    /\ \/ req[r].body[1].kind # "object"
       \/ req[r].body[1].messages.kind # "array"
       \/ req[r].body[1].messages.items = <<>>
       \/ \E i \in 1..Len(req[r].body[1].messages.items) :
              BadMessage(req[r].body[1].messages.items[i])

\* C25: the chat handler authenticates before it looks at the body: a POST
\* with a token the authority rejects and a body that would fail validation
\* (no messages, a message without content, a message with an invalid role)
\* is answered 401 "Invalid or expired token", at no moment 400, and the
\* chat-completion provider is not called.
C25_AuthBeforeValidation ==
    \A r \in ReqIds :
        (Started(r) /\ req[r].method = "POST" /\ BeginsWithBearer(req[r].authorization)
            /\ ArrivedWithBadBody(r)) =>
            /\ pc[r] = "getUser" => (res[r].status = 0 /\ res[r].sent = 0)
            /\ (loc[r].answer # None /\ Rejected(loc[r].answer[1])) =>
                   /\ FailureWith(r, 401, "Invalid or expired token")
                   /\ res[r].status # 400
                   /\ cnt[r].protectedRuns = 0
                   /\ cnt[r].providerCalls = 0 /\ loc[r].completion = None

\* a POST with a rejected token and a message with an invalid role got 401
C25_Witness ==
    /\ req[1].method = "POST"
    /\ req[1].body = Some(ChatBody(<<BadRoleMessage>>, FALSE))
    /\ loc[1].answer # None /\ Rejected(loc[1].answer[1])
    /\ res[1].status = 401 /\ pc[1] = "done"

\* ---------------------------------------------------------------- C26
\* the request was let through by the gate with a JSON object as its body
\* and the OpenAI key configured, and the handler has worked on it
AuthorisedWithBody(r) ==
    /\ req[r].method = "POST" /\ cnt[r].protectedRuns = 1
    /\ Truthy(env["OPENAI_API_KEY"])
    /\ req[r].body # None /\ req[r].body[1].kind = "object"

MessagesOf(r) == req[r].body[1].messages

LacksRoleOrContent(m) ==
    m.role = None \/ m.role = Some(<<>>) \/ m.content = None \/ m.content = Some(<<>>)

\* the position of the first message that would not pass, 0 if there is none
FirstBadMessage(items) ==
    IF \E i \in 1..Len(items) : BadMessage(items[i])
    THEN CHOOSE i \in 1..Len(items) :
             BadMessage(items[i]) /\ \A j \in 1..(i - 1) : ~BadMessage(items[j])
    ELSE 0

\* the response is 400 with the failure body and exactly this error
BadRequest(r, err) ==
    /\ pc[r] = "done"
    /\ res[r].status = 400 /\ res[r].sent = 1
    /\ res[r].body = Some([success |-> FALSE, error |-> err])
    /\ cnt[r].providerCalls = 0 /\ loc[r].completion = None
    /\ res[r].events = <<>>

QuotaReported(r) ==
    /\ cnt[r].providerCalls = 1
    /\ loc[r].completion # None
    /\ loc[r].completion[1].kind = "throw"
    /\ loc[r].completion[1].type = Some(<<"insufficient_quota">>)

\* C27: when the provider reports insufficient_quota for an authorised, valid
\* chat request, the response is 429 with success false and the error
\* "OpenAI API quota exceeded", for a streaming request as for any other.
C27_QuotaIs429 ==
    \A r \in ReqIds :
        QuotaReported(r) =>
            /\ res[r].status = 429
            /\ res[r].body = Some([success |-> FALSE, error |-> <<"OpenAI API quota exceeded">>])

\* a streaming request met the quota error and was ended with the Stream
\* failed event, without status and without body
C27_Witness ==
    /\ QuotaReported(1) /\ req[1].body # None /\ req[1].body[1].stream
    /\ pc[1] = "done"
    /\ res[1].status = 0 /\ res[1].body = None
    /\ res[1].events = <<StreamFailedEvent>>

\* the quota error of a request that did not ask for streaming is answered
\* 429
C27_HoldsWithoutStreaming ==
    \A r \in ReqIds :
        (QuotaReported(r) /\ req[r].body # None /\ ~req[r].body[1].stream) =>
            /\ res[r].status = 429
            /\ res[r].body = Some([success |-> FALSE, error |-> <<"OpenAI API quota exceeded">>])

\* ---------------------------------------------------------------- C28
\* the data events of the non-empty chunks, in the order of the chunks
RECURSIVE DataEventsOf(_)
DataEventsOf(chunks) ==
    IF chunks = <<>> THEN <<>>
    ELSE IF Head(chunks) = <<>> THEN DataEventsOf(Tail(chunks))
    ELSE <<[kind |-> "content", content |-> Head(chunks)]>> \o DataEventsOf(Tail(chunks))

\* the handler has taken the streaming branch for the request
StreamingRequest(r) ==
    /\ cnt[r].providerCalls = 1
    /\ req[r].body # None /\ req[r].body[1].stream

DoneMark == [kind |-> "done", content |-> <<"[DONE]">>]
FailedMark == [kind |-> "error", content |-> <<"Stream failed">>]

\* C28: an authorised streaming request is ended exactly once and never gets
\* a JSON response or a status of its own.  While the stream is read the
\* events written are the data events of the non-empty chunks in provider
\* order.  A stream read to its end is closed by the [DONE] event; a stream
\* that cannot be created or read is closed by the Stream failed event, with
\* no [DONE] event anywhere.
C28_StreamEndsOnce ==
    \A r \in ReqIds :
        StreamingRequest(r) =>
            /\ res[r].body = None /\ res[r].status = 0
            /\ res[r].headers["Content-Type"] = Some(<<"text/event-stream">>)
            /\ pc[r] \in {"streamCreate", "streaming", "done"}
            /\ pc[r] # "done" =>
                   (res[r].sent = 0 /\ res[r].events = DataEventsOf(loc[r].chunks))
            /\ pc[r] = "done" =>
                   /\ res[r].sent = 1
                   /\ \/ res[r].events = DataEventsOf(loc[r].chunks) \o <<DoneMark>>
                      \/ res[r].events = DataEventsOf(loc[r].chunks) \o <<FailedMark>>
                   /\ loc[r].completion[1].kind = "throw" => res[r].events = <<FailedMark>>

\* an empty chunk and a content chunk were read and the stream was closed
C28_Witness ==
    /\ StreamingRequest(1) /\ pc[1] = "done"
    /\ loc[1].chunks = << <<>>, <<"llo">> >>
    /\ res[1].events = <<[kind |-> "content", content |-> <<"llo">>], DoneMark>>
    /\ res[1].sent = 1

\* ---------------------------------------------------------------- C29
\* SUPABASE_URL or SUPABASE_ANON_KEY is unset or empty
SupabaseConfigAbsent == ~Truthy(env["SUPABASE_URL"]) \/ ~Truthy(env["SUPABASE_ANON_KEY"])

\* a POST in non-development mode that found the allow-list non-empty
PostPastListCheck(r) ==
    /\ NonDevMode /\ Started(r) /\ req[r].method = "POST"
    /\ loc[r].listRead /\ ~RawListEmpty(loc[r].approvedUsersEnv)

\* C29: in non-development mode with a non-empty allow-list, a POST whose
\* header starts with "Bearer " gets 500 "Missing Supabase configuration"
\* and no call of the authority when SUPABASE_URL or SUPABASE_ANON_KEY is
\* absent; the header is checked first, so with the same configuration a
\* POST with a missing or malformed header gets 401.
C29_HeaderThenSupabaseConfig ==
    \A r \in ReqIds :
        (PostPastListCheck(r) /\ SupabaseConfigAbsent) =>
            /\ pc[r] = "done" /\ cnt[r].authorityCalls = 0 /\ loc[r].answer = None
            /\ cnt[r].protectedRuns = 0
            /\ BeginsWithBearer(req[r].authorization) =>
                   /\ FailureWith(r, 500, "Missing Supabase configuration")
                   /\ res[r].body[1].error = <<"Missing Supabase configuration">>
            /\ ~BeginsWithBearer(req[r].authorization) =>
                   FailureWith(r, 401, "Authorization header required")

\* the key is missing and a request with a bearer token was answered 500
C29_Witness ==
    /\ PostPastListCheck(1)
    /\ env["SUPABASE_URL"] # None /\ env["SUPABASE_ANON_KEY"] = None
    /\ req[1].authorization = Some(BearerT)
    /\ res[1].status = 500 /\ cnt[1].authorityCalls = 0

\* ---------------------------------------------------------------- C30
\* the origin begins with a preview host but goes on after .vercel.app, and
\* the configured list does not name it
PreviewLookalike(r) ==
    /\ BeginsLikePreview(req[r].origin)
    /\ ~IsPreviewOrigin(req[r].origin)
    /\ ~Includes(allowedOriginsOf(env), req[r].origin[1])

\* C30: the preview branch echoes an origin only when its host is exactly
\* unigraph-git-<label>.vercel.app; an origin that merely begins with such a
\* host, like https://unigraph-git-x.vercel.app.evil.example, is not echoed.
C30_OnlyExactPreviewHostEchoed ==
    \A r \in ReqIds :
        (Started(r) /\ PreviewLookalike(r)) => AllowOrigin(r) # req[r].origin

\* the origin https://unigraph-git-x.vercel.app.evil.example was echoed with
\* credentials allowed
C30_Witness ==
    /\ Started(1) /\ req[1].origin = Some(PreviewSuffixOrigin)
    /\ env["ALLOWED_ORIGINS"] = Some(AppOrigin) /\ ~AllowAll
    /\ AllowOrigin(1) = Some(PreviewSuffixOrigin)
    /\ res[1].headers["Access-Control-Allow-Credentials"] = Some(<<"true">>)

\* ------------------------------------------------- the login handler (api/auth)
\* middleware/cors configureCORS, the copy the login handler imports: the
\* wildcard when CORS_ALLOW_ALL is "true" or ALLOWED_ORIGINS is unset or empty;
\* otherwise the request origin when listed, else the first entry or the wildcard
apiAllowOrigin(e, rq) ==
    IF e["CORS_ALLOW_ALL"] = Some(<<"true">>) THEN Wildcard
    ELSE IF Truthy(e["ALLOWED_ORIGINS"])
         THEN LET allowedOrigins == MapTrim(Split(e["ALLOWED_ORIGINS"][1]))
              IN  IF Truthy(rq.origin) /\ Includes(allowedOrigins, rq.origin[1])
                  THEN rq.origin[1]
                  ELSE IF allowedOrigins[1] # <<>> THEN allowedOrigins[1] ELSE Wildcard
         ELSE Wildcard

apiConfigureCORS(e, rq, rs) ==
    LET headed == commonCorsHeaders(
                      setHeader(rs, "Access-Control-Allow-Origin", apiAllowOrigin(e, rq)))
    IN  IF rq.method = "OPTIONS"
        THEN [res |-> End(headed, 200), preflight |-> TRUE]
        ELSE [res |-> headed, preflight |-> FALSE]

ErrLoginMethod == <<"Method not allowed">>
ErrInvalidJson == <<"Invalid JSON in request body">>
ErrCredentialsRequired == <<"Email and password are required">>
ErrSignupDisabled ==
    <<"Signup is only allowed through the Unigraph app. Programmatic signup is disabled.">>
ErrNoSession == <<"Authentication failed - no user or session returned">>
ErrInternal == <<"Internal server error">>

\* req.body of a login request: undefined, null, a scalar, an object with
\* optional email, password and action, or a string (json: what JSON.parse
\* makes of it, None when it throws)
LoginValue(kind, email, password, action, json) ==
    [kind |-> kind, email |-> email, password |-> password, action |-> action, json |-> json]

LoginObject(email, password, action) == LoginValue("object", email, password, action, None)
LoginBare(kind) == LoginValue(kind, None, None, None, None)
LoginText(json) == LoginValue("string", None, None, None, json)

\* typeof req.body === "string" ? JSON.parse(req.body) : req.body
parseLoginBody(b) ==
    IF b.kind = "string"
    THEN IF b.json = None THEN [ok |-> FALSE, value |-> b] ELSE [ok |-> TRUE, value |-> b.json[1]]
    ELSE [ok |-> TRUE, value |-> b]


loginMethodAllowed_getToo(rq) == rq.method \in {"POST", "GET"}

\* only POST goes past the method check
loginMethodAllowed(rq) == rq.method = "POST"

credentialsMissing_emailOnly(body) == ~Truthy(body.email)

\* !email || !password on the destructured body: a missing or empty field
credentialsMissing(body) == ~Truthy(body.email) \/ ~Truthy(body.password)

\* action === "signup"
signupRequested(body) == body.action = Some("signup")

LoginQuiet == [configRead |-> FALSE, credentials |-> None]
LoginNoCalls == [signInCalls |-> 0, signUpCalls |-> 0]

\* the body of the try block up to its first await, the same in both copies
\* of the login handler but for the signup branch: api/auth answers 403, the
\* older copy calls supabase.auth.signUp
loginTry(e, rq, rs, signupDisabled) ==
    LET read == [LoginQuiet EXCEPT !.configRead = TRUE]
        out(rsp, l, c, next) == [res |-> rsp, loc |-> l, cnt |-> c, next |-> next]
    IN  IF ~Truthy(e["SUPABASE_URL"]) \/ ~Truthy(e["SUPABASE_ANON_KEY"])
        THEN out(Json(rs, 500, Failure(ErrSupabaseConfig)), read, LoginNoCalls, "done")
        ELSE LET parsed == parseLoginBody(rq.body[1])
                 body == parsed.value
                 given == [read EXCEPT !.credentials =
                              Some([email |-> body.email, password |-> body.password])]
             IN  IF ~parsed.ok
                 THEN out(Json(rs, 400, Failure(ErrInvalidJson)), read, LoginNoCalls, "done")
                 ELSE IF body.kind \in {"undefined", "null"}
                 THEN out(Json(rs, 500, Failure(ErrInternal)), read, LoginNoCalls, "done")
                 ELSE IF credentialsMissing(body)
                 THEN out(Json(rs, 400, Failure(ErrCredentialsRequired)), read,
                          LoginNoCalls, "done")
                 ELSE IF signupRequested(body)
                 THEN IF signupDisabled
                      THEN out(Json(rs, 403, Failure(ErrSignupDisabled)), read,
                               LoginNoCalls, "done")
                      ELSE out(rs, given, [LoginNoCalls EXCEPT !.signUpCalls = 1], "signUp")
                 ELSE out(rs, given, [LoginNoCalls EXCEPT !.signInCalls = 1], "signIn")

LoginAnsweredEarly(rs) ==
    [res |-> rs, loc |-> LoginQuiet, cnt |-> LoginNoCalls, next |-> "done"]

\* api/auth: the login handler up to its first await
loginHandler(e, rq, rs) ==
    LET cors == apiConfigureCORS(e, rq, rs)
    IN  IF cors.preflight THEN LoginAnsweredEarly(cors.res)
        ELSE IF ~loginMethodAllowed(rq)
        THEN LoginAnsweredEarly(Json(cors.res, 405, Failure(ErrLoginMethod)))
        ELSE loginTry(e, rq, cors.res, TRUE)

OlderAllowHeadersValue == <<"Content-Type, Authorization">>

\* the older copy of the login handler: its own three CORS headers, the same
\* checks, and a signup branch that registers the user
olderLoginHandler(e, rq, rs) ==
    LET headed == setHeader(setHeader(setHeader(rs,
                      "Access-Control-Allow-Origin", Wildcard),
                      "Access-Control-Allow-Methods", AllowMethodsValue),
                      "Access-Control-Allow-Headers", OlderAllowHeadersValue)
    IN  IF rq.method = "OPTIONS" THEN LoginAnsweredEarly(End(headed, 200))
        ELSE IF ~loginMethodAllowed(rq)
        THEN LoginAnsweredEarly(Json(headed, 405, Failure(ErrLoginMethod)))
        ELSE loginTry(e, rq, headed, FALSE)

\* the login handler after the provider has answered: errorCode is 401 for
\* signInWithPassword and 400 for signUp
loginResume(rs, answer, errorCode) ==
    IF answer.kind = "throw" THEN Json(rs, 500, Failure(ErrInternal))
    ELSE IF answer.error # None THEN Json(rs, errorCode, Failure(answer.error[1]))
    ELSE IF answer.user = None \/ answer.session = None
    THEN Json(rs, 500, Failure(ErrNoSession))
    ELSE Json(rs, 200,
              [success |-> TRUE,
               user |-> AttachedUser(answer.user[1]),
               tokens |-> [access_token |-> answer.session[1].access_token,
                           refresh_token |-> answer.session[1].refresh_token],
               expires_at |-> answer.session[1].expires_at])

LoginRequest(route, m, o, b) ==
    [method |-> m, authorization |-> None, origin |-> o, user |-> NoUser, body |-> Some(b),
     route |-> route]

\* a request reaches one of the two copies of the login handler
LoginStart(r) ==
    /\ pc[r] = "idle"
    /\ \E route \in dom.routes, m \in dom.methods, o \in dom.origins, b \in dom.bodies :
          LET rq == LoginRequest(route, m, o, b)
              out == IF route = "api/auth" THEN loginHandler(env, rq, res[r])
                                           ELSE olderLoginHandler(env, rq, res[r])
          IN  /\ req' = [req EXCEPT ![r] = rq]
              /\ res' = [res EXCEPT ![r] = out.res]
              /\ loc' = [loc EXCEPT ![r] = out.loc]
              /\ cnt' = [cnt EXCEPT ![r] = out.cnt]
              /\ pc' = [pc EXCEPT ![r] = out.next]
    /\ UNCHANGED <<env, dom>>

\* supabase.auth.signInWithPassword answers
SignInReturns(r) ==
    /\ pc[r] = "signIn"
    /\ \E answer \in dom.signIns :
          res' = [res EXCEPT ![r] = loginResume(@, answer, 401)]
    /\ pc' = [pc EXCEPT ![r] = "done"]
    /\ UNCHANGED <<env, req, loc, cnt, dom>>

\* supabase.auth.signUp answers (older copy only)
SignUpReturns(r) ==
    /\ pc[r] = "signUp"
    /\ \E answer \in dom.signIns :
          res' = [res EXCEPT ![r] = loginResume(@, answer, 400)]
    /\ pc' = [pc EXCEPT ![r] = "done"]
    /\ UNCHANGED <<env, req, loc, cnt, dom>>

UserEmail == <<"u", "@", "x">>
UserPassword == <<"p", "w">>
OptionalEmails == {None, Some(<<>>), Some(UserEmail)}
OptionalPasswords == {None, Some(<<>>), Some(UserPassword)}
OptionalActions == {None, Some("signin"), Some("signup")}

LoginObjects ==
    {LoginObject(em, pw, a) : em \in OptionalEmails, pw \in OptionalPasswords,
                              a \in OptionalActions}

LoginBodies ==
    LoginObjects
    \cup {LoginBare("undefined"), LoginBare("null"), LoginBare("scalar")}
    \cup {LoginText(None), LoginText(Some(LoginBare("null"))),
          LoginText(Some(LoginObject(Some(UserEmail), Some(UserPassword), Some("signup")))),
          LoginText(Some(LoginObject(Some(UserEmail), None, None)))}

LoginSession == [access_token |-> <<"at">>, refresh_token |-> <<"rt">>, expires_at |-> 1]
LoginUser == [id |-> <<"id1">>, email |-> Some(UserEmail), role |-> None]

SignInAnswers ==
    {[kind |-> "throw", error |-> None, user |-> None, session |-> None],
     [kind |-> "result", error |-> Some(<<"Invalid login credentials">>),
      user |-> None, session |-> None],
     [kind |-> "result", error |-> None, user |-> Some(LoginUser), session |-> None],
     [kind |-> "result", error |-> None, user |-> None, session |-> Some(LoginSession)],
     [kind |-> "result", error |-> None, user |-> Some(LoginUser),
      session |-> Some(LoginSession)]}

LoginDom ==
    [routes |-> {"api/auth", "older"},
     methods |-> {"OPTIONS", "GET", "PUT", "DELETE", "POST"},
     origins |-> {None, Some(AppOrigin), Some(EvilOrigin)},
     bodies |-> LoginBodies,
     signIns |-> SignInAnswers,
     repeat |-> FALSE,
     bodyAtStart |-> TRUE]

LoginEnvs ==
    {EnvOf(Some(Str("production")), Some(<<"a">>), u, k, Some(Str("sk-key")), o, all,
           None, None) :
        u \in SupabaseUrls, k \in SupabaseKeys,
        o \in {None, Some(AppOrigin)}, all \in {None, Some(<<"true">>)}}

InitLogin ==
    /\ dom = LoginDom
    /\ env \in LoginEnvs
    /\ pc = [r \in ReqIds |-> IF r = 1 THEN "idle" ELSE "off"]
    /\ req = [r \in ReqIds |-> LoginRequest("api/auth", "GET", None, LoginBare("undefined"))]
    /\ res = [r \in ReqIds |-> FreshRes]
    /\ loc = [r \in ReqIds |-> LoginQuiet]
    /\ cnt = [r \in ReqIds |-> LoginNoCalls]

NextLogin ==
    \/ \E r \in ReqIds : LoginStart(r)
    \/ \E r \in ReqIds : SignInReturns(r)
    \/ \E r \in ReqIds : SignUpReturns(r)

SpecLogin == InitLogin /\ [][NextLogin]_vars

\* ---------------------------------------------------------------------- C24
LoginAnswered(r) == pc[r] \in {"signIn", "signUp", "done"} /\ dom = LoginDom

LoginFailure(r, code, err) ==
    /\ pc[r] = "done"
    /\ res[r].sent = 1
    /\ res[r].status = code
    /\ res[r].body = Some(Failure(err))

ProviderUntouched(r) == cnt[r].signInCalls = 0 /\ cnt[r].signUpCalls = 0

\* C24: a login request whose method is neither POST nor OPTIONS is answered
\* 405 with the error Method not allowed; an OPTIONS request is answered 200
\* without a body and with the Allow-Origin, Allow-Methods and Allow-Headers
\* headers set; in both cases the Supabase configuration has not been read and
\* the provider has not been called.
C24_LoginMethodCheck ==
    \A r \in ReqIds :
        LoginAnswered(r) =>
            /\ req[r].method \notin {"POST", "OPTIONS"} =>
                   LoginFailure(r, 405, ErrLoginMethod)
            /\ req[r].method = "OPTIONS" =>
                   /\ pc[r] = "done" /\ res[r].sent = 1
                   /\ res[r].status = 200 /\ res[r].body = None
                   /\ res[r].headers["Access-Control-Allow-Origin"] # None
                   /\ res[r].headers["Access-Control-Allow-Methods"] = Some(AllowMethodsValue)
                   /\ res[r].headers["Access-Control-Allow-Headers"] # None
            /\ req[r].method # "POST" => ~loc[r].configRead /\ ProviderUntouched(r)

C24_Witness ==
    \E r \in ReqIds :
        /\ LoginAnswered(r)
        /\ req[r].method = "DELETE"
        /\ ~Truthy(env["SUPABASE_URL"])
        /\ req[r].body[1].action = Some("signup")
        /\ LoginFailure(r, 405, ErrLoginMethod)

\* ---------------------------------------------------------------------- C23
SupabaseConfigPresent == Truthy(env["SUPABASE_URL"]) /\ Truthy(env["SUPABASE_ANON_KEY"])

\* the value the handler destructures: req.body, or what JSON.parse made of it
LoginBodyOf(r) == parseLoginBody(req[r].body[1]).value

\* the body is a JSON value that can be destructured (not absent, not null,
\* not an unparsable string)
LoginBodyReadable(r) ==
    /\ parseLoginBody(req[r].body[1]).ok
    /\ LoginBodyOf(r).kind \in {"object", "scalar"}

LacksCredential(r) ==
    \/ LoginBodyOf(r).email = None \/ LoginBodyOf(r).email = Some(<<>>)
    \/ LoginBodyOf(r).password = None \/ LoginBodyOf(r).password = Some(<<>>)

C23_AbsentBodyIs500 ==
    \A r \in ReqIds :
        (/\ LoginAnswered(r)
         /\ req[r].method = "POST"
         /\ SupabaseConfigPresent
         /\ parseLoginBody(req[r].body[1]).ok
         /\ LoginBodyOf(r).kind \in {"undefined", "null"})
        => LoginFailure(r, 500, ErrInternal)

\* ---------------------------------------------------------------------- C22
SignupPost(r) ==
    /\ LoginAnswered(r)
    /\ req[r].method = "POST"
    /\ parseLoginBody(req[r].body[1]).ok
    /\ LoginBodyOf(r).kind = "object"
    /\ LoginBodyOf(r).action = Some("signup")

\* C22 as stated: every POST to the login handler with the action signup is
\* answered 403 with the signup-disabled error, and neither the provider's
\* sign-up nor its sign-in is called.
C22_Original ==
    \A r \in ReqIds :
        SignupPost(r) =>
            /\ LoginFailure(r, 403, ErrSignupDisabled)
            /\ ProviderUntouched(r)

\* C22 on api/auth alone: a POST with the action signup never reaches the
\* provider; it is answered 403 with the signup-disabled error when the
\* Supabase configuration is present and the body carries a non-empty email
\* and password, 500 Missing Supabase configuration when the configuration
\* is absent, and 400 Email and password are required otherwise.
C22_SignupRejectedByApiAuth ==
    \A r \in ReqIds :
        (SignupPost(r) /\ req[r].route = "api/auth") =>
            /\ pc[r] = "done"
            /\ ProviderUntouched(r)
            /\ (SupabaseConfigPresent /\ ~LacksCredential(r))
                   => LoginFailure(r, 403, ErrSignupDisabled)
            /\ ~SupabaseConfigPresent => LoginFailure(r, 500, ErrSupabaseConfig)
            /\ (SupabaseConfigPresent /\ LacksCredential(r))
                   => LoginFailure(r, 400, ErrCredentialsRequired)

\* the older copy of the handler has registered the user and answered 200
C22_Witness ==
    \E r \in ReqIds :
        /\ SignupPost(r)
        /\ req[r].route = "older"
        /\ cnt[r].signUpCalls = 1
        /\ pc[r] = "done"
        /\ res[r].status = 200

\* api/auth has answered a signup request without the email 400, not 403
C22_ApiAuthAnswers400 ==
    \E r \in ReqIds :
        /\ SignupPost(r)
        /\ req[r].route = "api/auth"
        /\ LoginFailure(r, 400, ErrCredentialsRequired)

====
